---- MODULE Spec2Model ----
(***************************************************************************)
(* Model of the Manufacturing/IIoT research agent: the report assembler    *)
(* (utils/report_generator.py), the analysis and synthesis stages          *)
(* (utils/llm_processor.py), the report store (utils/database.py), the     *)
(* source adapters (utils/web_search.py, utils/web_scraper.py,             *)
(* utils/social_media.py) and the pipeline driver (app.py).                *)
(*                                                                         *)
(* Text.  A Python str is modelled as a sequence of tokens; a token is a   *)
(* TLA+ string standing for a run of characters.  Concatenation is \o,     *)
(* the empty str is << >>.  The tokens that the code treats specially are  *)
(* SEP ("\n## ", the separator generate_simplified_report splits on), NL   *)
(* (a newline), WS (blank space that str.strip removes) and the ten        *)
(* characters of a formatted date.                                         *)
(***************************************************************************)
EXTENDS Integers, Sequences, FiniteSets, TLC

VARIABLES
    googleKey,      \* GOOGLE_API_KEY is non-empty (read once at import)
    clock,          \* the server clock's current date, <<year, month, day>>
    gr_pc,          \* generate_report: position in the function
    gr_pd,          \* generate_report: argument processed_data
    gr_kw,          \* generate_report: argument keywords
    gr_today,       \* generate_report: local today (line 38)
    gr_loc,         \* generate_report: locals title, summary, trends, ...
    gr_calls,       \* generate_report: oracle calls issued so far, in order
    gr_raised,      \* generate_report: the call that raised ("" when none did)
    gr_ret,         \* generate_report: the returned report (NoReport before)
    engine,         \* database.engine is not None
    reportsTbl,     \* database.reports (the Table object) is not None
    rows,           \* the rows of table reports, in insertion order
    db_last,        \* the last store call: its name, argument, result
    saved,          \* history: id returned by a successful save_report -> its argument
    rr_pc,          \* run_research: position in the function ("idle" outside a run)
    search_results, \* run_research: local search_results (line 201)
    scraped_data,   \* run_research: local scraped_data (line 206)
    linkedin_data,  \* run_research: local linkedin_data (lines 210-213)
    processed_data, \* run_research: local processed_data (line 218)
    genai_ready,    \* what init_genai() returned in this run ("unknown" before)
    oracle_log,     \* the oracle calls of process_data_with_langchain, in order
    rr_calls,       \* run_research: the stage functions called so far, in order
    rr_raised,      \* run_research: the stage an exception escaped from ("" when none)
    ui,             \* run_research: the st.error and st.success messages shown from
                    \* the call of save_report (line 226) on, in order
    tavilyKey,      \* TAVILY_API_KEY is non-empty
    serpapiKey,     \* SERPAPI_KEY is non-empty
    linkedinCreds,  \* the three LINKEDIN_* credentials are all non-empty
    src_last        \* the last direct call of a source adapter: argument, result

gr_vars == <<gr_pc, gr_pd, gr_kw, gr_today, gr_loc, gr_calls, gr_raised, gr_ret>>
env_vars == <<googleKey, clock, tavilyKey, serpapiKey, linkedinCreds>>
db_vars == <<engine, reportsTbl, rows, db_last, saved>>
rr_vars == <<rr_pc, search_results, scraped_data, linkedin_data, processed_data,
             genai_ready, oracle_log, rr_calls, rr_raised, ui, src_last>>

-----------------------------------------------------------------------------
(* Bounds of the model *)

\* most "\n## " sections in a comprehensive_insights text
MaxSections == 2
\* most records in a scraped_content list handed to generate_report
MaxScraped == 1
\* most rows the table holds before the first call
MaxStored == 1
\* most rows the table holds at all
MaxRows == 2
\* largest limit passed to get_reports
MaxLimit == 1
\* most results a web search returns
MaxResults == 1
\* the longest list of search results handed to scrape_industry_websites directly
MaxSites == 2

-----------------------------------------------------------------------------
(* Text *)

SEP == "\n## "
NL == "\n"
WS == " "

\* str.lower() on one token
Lower(tok) ==
    CASE tok = "Key Industry Trends"        -> "key industry trends"
      [] tok = "Critical Challenges"        -> "critical challenges"
      [] tok = "Innovative Solutions"       -> "innovative solutions"
      [] tok = "Market Outlook"             -> "market outlook"
      [] tok = "a rising Trend"             -> "a rising trend"
      [] tok = "a CHALLENGE remains"        -> "a challenge remains"
      [] tok = "new Opportunities"          -> "new opportunities"
      [] tok = "an Opportunity"             -> "an opportunity"
      [] tok = "Intro"                      -> "intro"
      [] OTHER                              -> tok

\* Python's  kw in s  for a keyword kw and a lower-cased token s
SubstringOf(kw, s) ==
    CASE kw = "trend"       -> s \in {"key industry trends", "a rising trend"}
      [] kw = "challenge"   -> s \in {"critical challenges", "a challenge remains"}
      [] kw = "solution"    -> s \in {"innovative solutions"}
      [] kw = "opportunity" -> s \in {"an opportunity"}
      [] OTHER              -> FALSE

\* Python's  kw in part.lower()
InLower(kw, part) == \E i \in 1..Len(part) : SubstringOf(kw, Lower(part[i]))

\* Python's  s.split(sep)  for a one-token separator: always at least one part
RECURSIVE SplitFrom(_, _, _, _)
SplitFrom(s, sep, i, cur) ==
    IF i > Len(s) THEN <<cur>>
    ELSE IF s[i] = sep THEN <<cur>> \o SplitFrom(s, sep, i + 1, <<>>)
    ELSE SplitFrom(s, sep, i + 1, Append(cur, s[i]))

Split(s, sep) == SplitFrom(s, sep, 1, <<>>)

\* Python's  s[:n]
Prefix(s, n) == SubSeq(s, 1, IF Len(s) < n THEN Len(s) ELSE n)

\* Python's  s.strip(): leading and trailing blank tokens removed
IsBlank(tok) == tok \in {WS, NL}

RECURSIVE LStrip(_)
LStrip(s) == IF s # <<>> /\ IsBlank(Head(s)) THEN LStrip(Tail(s)) ELSE s

RECURSIVE RStrip(_)
RStrip(s) ==
    IF s # <<>> /\ IsBlank(s[Len(s)]) THEN RStrip(SubSeq(s, 1, Len(s) - 1)) ELSE s

Strip(s) == RStrip(LStrip(s))

\* dict.get(key, default)
Get(d, k, default) == IF k \in DOMAIN d THEN d[k] ELSE default

-----------------------------------------------------------------------------
(* The clock and strftime("%Y-%m-%d") *)

\* dates in chronological order: rows of earlier runs carry the first two, the
\* clock shows one of the last two
Dates == << <<2026, 9, 30>>, <<2026, 10, 1>>, <<2027, 1, 2>> >>

ClockDates == {Dates[2], Dates[3]}

DigitChar(d) == <<"0", "1", "2", "3", "4", "5", "6", "7", "8", "9">>[d + 1]

\* n as w decimal digits, zero padded, one token per character
RECURSIVE Digits(_, _)
Digits(n, w) == IF w = 0 THEN <<>> ELSE Append(Digits(n \div 10, w - 1), DigitChar(n % 10))

Strftime(d) == Digits(d[1], 4) \o <<"-">> \o Digits(d[2], 2) \o <<"-">> \o Digits(d[3], 2)

-----------------------------------------------------------------------------
(* utils/report_generator.py *)

H2 == "## "

\* character cap of the website_analysis fallback for trends (line 197)
TrendsCap == 1000

ReportKeys ==
    {"title", "date", "summary", "trends", "challenges", "solutions", "sources", "raw_data"}

\* what a function that has not returned holds, and what an escaped exception leaves
NoReport == [none |-> TRUE]
Raised == [exc |-> TRUE]

\* lines 130-136 and 202-208: project every scraped_content record to {title, url}
RECURSIVE ProjectSources(_)
ProjectSources(items) ==
    IF items = <<>> THEN <<>>
    ELSE <<[title |-> Get(Head(items), "title", <<"Unknown Source">>),
            url   |-> Get(Head(items), "url", <<"#">>)]>>
         \o ProjectSources(Tail(items))

CollectSources(pd) ==
    IF "scraped_content" \in DOMAIN pd
    THEN ProjectSources(Get(pd, "scraped_content", <<>>))
    ELSE <<>>

\* lines 183-193: the for loop over parts, one if/elif/elif chain per part
RECURSIVE BucketParts(_, _, _)
BucketParts(parts, i, acc) ==
    IF i > Len(parts) THEN acc
    ELSE LET part == parts[i]
             next ==
                 IF InLower("trend", part)
                 THEN [acc EXCEPT !.trends = <<H2>> \o part]
                 ELSE IF InLower("challenge", part)
                 THEN [acc EXCEPT !.challenges = <<H2>> \o part]
                 ELSE IF InLower("solution", part) \/ InLower("opportunity", part)
                 THEN [acc EXCEPT !.solutions = <<H2>> \o part]
                 ELSE acc
         IN BucketParts(parts, i + 1, next)

\* mutant: the website_analysis fallback for trends is not cut at TrendsCap
SimplifiedSections_Uncapped(pd) ==
    LET comprehensive_insights == Get(pd, "comprehensive_insights", <<>>)
        website_analysis == Get(pd, "website_analysis", <<>>)
    IN IF comprehensive_insights # <<>>
       THEN LET parts == Split(comprehensive_insights, SEP)
                b == BucketParts(parts, 1,
                         [trends |-> <<>>, challenges |-> <<>>, solutions |-> <<>>])
            IN [summary    |-> IF parts # <<>> THEN parts[1] ELSE <<"No summary available.">>,
                trends     |-> b.trends,
                challenges |-> b.challenges,
                solutions  |-> b.solutions]
       ELSE [summary    |-> <<"Research summary not available due to API limitations.">>,
             trends     |-> IF website_analysis # <<>>
                            THEN website_analysis
                            ELSE <<"Trend analysis not available.">>,
             challenges |-> <<"Challenge analysis not available.">>,
             solutions  |-> <<"Solutions analysis not available.">>]

\* lines 173-199: the four narrative sections of the simplified report
SimplifiedSections(pd) ==
    LET comprehensive_insights == Get(pd, "comprehensive_insights", <<>>)
        website_analysis == Get(pd, "website_analysis", <<>>)
    IN IF comprehensive_insights # <<>>
       THEN LET parts == Split(comprehensive_insights, SEP)
                b == BucketParts(parts, 1,
                         [trends |-> <<>>, challenges |-> <<>>, solutions |-> <<>>])
            IN [summary    |-> IF parts # <<>> THEN parts[1] ELSE <<"No summary available.">>,
                trends     |-> b.trends,
                challenges |-> b.challenges,
                solutions  |-> b.solutions]
       ELSE [summary    |-> <<"Research summary not available due to API limitations.">>,
             trends     |-> IF website_analysis # <<>>
                            THEN Prefix(website_analysis, TrendsCap)
                            ELSE <<"Trend analysis not available.">>,
             challenges |-> <<"Challenge analysis not available.">>,
             solutions  |-> <<"Solutions analysis not available.">>]

DefaultTitle(today) == <<"Manufacturing & IIoT Industry Research Report - ">> \o today

\* generate_simplified_report(processed_data, keywords), today read from the clock
generate_simplified_report(pd, kw, today) ==
    LET s == SimplifiedSections(pd)
    IN [title      |-> DefaultTitle(today),
        date       |-> today,
        summary    |-> s.summary,
        trends     |-> s.trends,
        challenges |-> s.challenges,
        solutions  |-> s.solutions,
        sources    |-> CollectSources(pd),
        raw_data   |-> [keywords |-> kw]]

\* lines 139-151: the report of the path on which all five calls succeeded
FullReport(pd, kw, today, loc) ==
    [title      |-> loc.title,
     date       |-> today,
     summary    |-> loc.summary,
     trends     |-> loc.trends,
     challenges |-> loc.challenges,
     solutions  |-> loc.solutions,
     sources    |-> CollectSources(pd),
     raw_data   |-> [keywords |-> kw,
                     comprehensive_insights |-> Get(pd, "comprehensive_insights", <<>>)]]

\* mutant: the handler lets the exception escape
OnException_Reraise(pd, kw, today, loc) == Raised

\* mutant: the handler falls back field by field, keeping a title already obtained
OnException_PerField(pd, kw, today, loc) ==
    LET r == generate_simplified_report(pd, kw, today)
    IN IF loc.title # <<>> THEN [r EXCEPT !.title = loc.title] ELSE r

\* lines 155-157: the handler of the try block
OnException(pd, kw, today, loc) == generate_simplified_report(pd, kw, today)

\* mutant: the keyless branch titles the report with the store's default title
WithoutKey_StoreTitle(pd, kw, today) ==
    [generate_simplified_report(pd, kw, today)
        EXCEPT !.title = <<"Manufacturing/IIoT Research Report - ">> \o today]

\* lines 23-25: the branch taken without a key
WithoutKey(pd, kw, today) == generate_simplified_report(pd, kw, today)

\* the five oracle calls in program order (lines 44, 60, 81, 104, 126)
CallOrder == <<"title", "summary", "trends", "challenges", "solutions">>

\* mutant: the trends call is issued before the summary call
NextPc_TrendsFirst(call) ==
    CASE call = "title" -> "trends"
      [] call = "trends" -> "summary"
      [] call = "summary" -> "challenges"
      [] call = "challenges" -> "solutions"
      [] call = "solutions" -> "build"

NextPc(call) ==
    CASE call = "title" -> "summary"
      [] call = "summary" -> "trends"
      [] call = "trends" -> "challenges"
      [] call = "challenges" -> "solutions"
      [] call = "solutions" -> "build"

\* response.text of a successful call: what the oracle may answer
OracleText(call) ==
    IF call = "title"
    THEN {<<WS, "oracle title", NL>>}
    ELSE {<<"oracle " \o call>>}

\* lines 45, 61, 82, 105, 127: the local a response is assigned to
Assigned(call, text) == IF call = "title" THEN Strip(text) ELSE text

EmptyLocals ==
    [title |-> <<>>, summary |-> <<>>, trends |-> <<>>, challenges |-> <<>>, solutions |-> <<>>]

\* a call ends "done" with a value, or "raised" when an exception escapes it
AfterReturn(ret) == IF ret = Raised THEN "raised" ELSE "done"

\* lines 21-25
GR_Enter ==
    /\ gr_pc = "start"
    /\ IF ~googleKey
       THEN /\ gr_ret' = WithoutKey(gr_pd, gr_kw, Strftime(clock))
            /\ gr_pc' = AfterReturn(gr_ret')
       ELSE /\ gr_pc' = "configure"
            /\ UNCHANGED gr_ret
    /\ UNCHANGED <<gr_pd, gr_kw, gr_today, gr_loc, gr_calls, gr_raised, env_vars>>

\* lines 27-38: genai.configure and GenerativeModel may raise inside the try block
GR_Configure ==
    /\ gr_pc = "configure"
    /\ \E ok \in BOOLEAN :
         IF ok
         THEN /\ gr_today' = Strftime(clock)
              /\ gr_pc' = "title"
              /\ UNCHANGED <<gr_ret, gr_raised>>
         ELSE /\ gr_ret' = OnException(gr_pd, gr_kw, Strftime(clock), gr_loc)
              /\ gr_raised' = "configure"
              /\ gr_pc' = AfterReturn(gr_ret')
              /\ UNCHANGED gr_today
    /\ UNCHANGED <<gr_pd, gr_kw, gr_loc, gr_calls, env_vars>>

\* one model.generate_content call and the assignment of its response
GR_Call(call) ==
    /\ gr_pc = call
    /\ gr_calls' = Append(gr_calls, call)
    /\ \/ \E text \in OracleText(call) :
            /\ gr_loc' = [gr_loc EXCEPT ![call] = Assigned(call, text)]
            /\ gr_pc' = NextPc(call)
            /\ UNCHANGED <<gr_ret, gr_raised>>
       \/ /\ gr_ret' = OnException(gr_pd, gr_kw, Strftime(clock), gr_loc)
          /\ gr_raised' = call
          /\ gr_pc' = AfterReturn(gr_ret')
          /\ UNCHANGED gr_loc
    /\ UNCHANGED <<gr_pd, gr_kw, gr_today, env_vars>>

GR_Title == GR_Call("title")
GR_Summary == GR_Call("summary")
GR_Trends == GR_Call("trends")
GR_Challenges == GR_Call("challenges")
GR_Solutions == GR_Call("solutions")

\* lines 129-153
GR_Build ==
    /\ gr_pc = "build"
    /\ gr_ret' = FullReport(gr_pd, gr_kw, gr_today, gr_loc)
    /\ gr_pc' = "done"
    /\ UNCHANGED <<gr_pd, gr_kw, gr_today, gr_loc, gr_calls, gr_raised, env_vars>>

GR_Step ==
    \/ GR_Enter \/ GR_Configure
    \/ GR_Title \/ GR_Summary \/ GR_Trends \/ GR_Challenges \/ GR_Solutions
    \/ GR_Build

\* the server clock moves to a later date
Tick ==
    /\ \E d \in ClockDates :
         /\ \E i, j \in 1..Len(Dates) : Dates[i] = clock /\ Dates[j] = d /\ i < j
         /\ clock' = d
    /\ UNCHANGED <<googleKey, tavilyKey, serpapiKey, linkedinCreds>>

-----------------------------------------------------------------------------
(* json.dumps and json.loads (utils/database.py lines 82-83, 157-165, 217-225) *)
(* A JSON text is a str like any other: a sequence of tokens.  The      *)
(* punctuation characters are tokens of their own.                         *)

Q == "\""
BS == "\\"

\* the escape json.dumps writes for one token of a string
EscapeTok(tok) ==
    CASE tok = Q   -> "\\\""
      [] tok = BS  -> "\\\\"
      [] tok = NL  -> "\\n"
      [] tok = SEP -> "\\n## "
      [] OTHER     -> tok

\* what json.loads reads an escaped token back as
UnescapeTok(tok) ==
    CASE tok = "\\\""   -> Q
      [] tok = "\\\\"   -> BS
      [] tok = "\\n"    -> NL
      [] tok = "\\n## " -> SEP
      [] OTHER          -> tok

\* mutant: strings are written between quotes as they are
Escape_Raw(text) == text

Escape(text) == [i \in 1..Len(text) |-> EscapeTok(text[i])]

Unescape(text) == [i \in 1..Len(text) |-> UnescapeTok(text[i])]

DumpStr(text) == <<Q>> \o Escape(text) \o <<Q>>

\* the keys of a dict in the order json.dumps writes them (insertion order)
KeyOrder == <<"title", "url", "keywords", "comprehensive_insights">>

RECURSIVE DumpMembers(_, _, _)
DumpMembers(d, i, first) ==
    IF i > Len(KeyOrder) THEN <<>>
    ELSE IF KeyOrder[i] \in DOMAIN d
    THEN (IF first THEN <<>> ELSE <<",">>)
         \o DumpStr(<<KeyOrder[i]>>) \o <<":">> \o DumpStr(d[KeyOrder[i]])
         \o DumpMembers(d, i + 1, FALSE)
    ELSE DumpMembers(d, i + 1, first)

\* json.dumps of a dict of strings
DumpDict(d) == <<"{">> \o DumpMembers(d, 1, TRUE) \o <<"}">>

RECURSIVE DumpItems(_, _)
DumpItems(l, i) ==
    IF i > Len(l) THEN <<>>
    ELSE (IF i = 1 THEN <<>> ELSE <<",">>) \o DumpDict(l[i]) \o DumpItems(l, i + 1)

\* json.dumps of a list of dicts of strings
DumpList(l) == <<"[">> \o DumpItems(l, 1) \o <<"]">>

ParseFail == [ok |-> FALSE]

\* the index of the quote closing the string opened before i, 0 when there is none
RECURSIVE ClosingQuote(_, _)
ClosingQuote(t, i) ==
    IF i > Len(t) THEN 0
    ELSE IF t[i] = Q THEN i
    ELSE ClosingQuote(t, i + 1)

RECURSIVE JoinTokens(_)
JoinTokens(text) == IF text = <<>> THEN "" ELSE Head(text) \o JoinTokens(Tail(text))

\* a JSON string starting at i; a raw control character or backslash inside is an error
StringUpTo(t, i, j) ==
    IF j = 0 THEN ParseFail
    ELSE IF \E k \in (i + 1)..(j - 1) : t[k] \in {NL, SEP, BS} THEN ParseFail
    ELSE [ok |-> TRUE, val |-> Unescape(SubSeq(t, i + 1, j - 1)), next |-> j + 1]

ParseString(t, i) ==
    IF i > Len(t) \/ t[i] # Q THEN ParseFail
    ELSE StringUpTo(t, i, ClosingQuote(t, i + 1))

RECURSIVE ParseValue(_, _)
RECURSIVE ParseElements(_, _, _)
RECURSIVE ParseMembers(_, _, _)

\* after element v of an array: "]" ends it, "," continues it
AfterElement(t, v, acc) ==
    IF ~v.ok \/ v.next > Len(t) THEN ParseFail
    ELSE IF t[v.next] = "]" THEN [ok |-> TRUE, val |-> Append(acc, v.val), next |-> v.next + 1]
    ELSE IF t[v.next] = "," THEN ParseElements(t, v.next + 1, Append(acc, v.val))
    ELSE ParseFail

\* the elements of an array after "[", acc the elements read so far
ParseElements(t, i, acc) == AfterElement(t, ParseValue(t, i), acc)

\* after the value v of the member named k of an object: "}" ends it, "," continues it
AfterMember(t, k, v, acc) ==
    IF ~v.ok \/ v.next > Len(t) THEN ParseFail
    ELSE IF t[v.next] = "}"
    THEN [ok |-> TRUE, val |-> (JoinTokens(k.val) :> v.val) @@ acc, next |-> v.next + 1]
    ELSE IF t[v.next] = ","
    THEN ParseMembers(t, v.next + 1, (JoinTokens(k.val) :> v.val) @@ acc)
    ELSE ParseFail

\* after the name k of a member: ":" and the value
AfterName(t, k, acc) ==
    IF ~k.ok \/ k.next > Len(t) \/ t[k.next] # ":" THEN ParseFail
    ELSE AfterMember(t, k, ParseValue(t, k.next + 1), acc)

\* the members of an object after "{", acc the dict read so far
ParseMembers(t, i, acc) == AfterName(t, ParseString(t, i), acc)

ParseValue(t, i) ==
    IF i > Len(t) THEN ParseFail
    ELSE IF t[i] = Q THEN ParseString(t, i)
    ELSE IF t[i] = "[" THEN
        IF i + 1 <= Len(t) /\ t[i + 1] = "]"
        THEN [ok |-> TRUE, val |-> <<>>, next |-> i + 2]
        ELSE ParseElements(t, i + 1, <<>>)
    ELSE IF t[i] = "{" THEN
        IF i + 1 <= Len(t) /\ t[i + 1] = "}"
        THEN [ok |-> TRUE, val |-> <<>>, next |-> i + 2]
        ELSE ParseMembers(t, i + 1, <<>>)
    ELSE ParseFail

\* the whole text must be one value
WholeText(col, r) ==
    IF r.ok /\ r.next = Len(col.text) + 1
    THEN [exc |-> "", val |-> r.val]
    ELSE [exc |-> "JSONDecodeError"]

\* json.loads(column): the exception it raises ("" when none) and the value
Loads(col) ==
    IF col.null THEN [exc |-> "TypeError"]
    ELSE WholeText(col, ParseValue(col.text, 1))

-----------------------------------------------------------------------------
(* utils/database.py *)

\* a text column holding a str
Column(text) == [null |-> FALSE, text |-> text]
\* a text column holding NULL
NullColumn == [null |-> TRUE, text |-> <<>>]

\* lines 11-43: engine and reports are None unless the set-up at import succeeded
Initialised == engine /\ reportsTbl

\* the surrogate id the store gives the next row
RECURSIVE MaxId(_)
MaxId(rws) ==
    IF rws = <<>> THEN 0
    ELSE LET m == MaxId(Tail(rws)) IN IF Head(rws).id > m THEN Head(rws).id ELSE m

\* mutant: the id of the newest row is given again
NextId_Reused(rws) == IF rws = <<>> THEN 1 ELSE MaxId(rws)

NextId(rws) == MaxId(rws) + 1

\* line 92: the title given to a report that has none
StoreDefaultTitle(today) == <<"Manufacturing/IIoT Research Report - ">> \o today

\* lines 79-99: the row inserted for report
NewRow(report, id, today) ==
    [id         |-> id,
     date       |-> today,
     title      |-> Get(report, "title", StoreDefaultTitle(today)),
     summary    |-> Get(report, "summary", <<>>),
     trends     |-> Get(report, "trends", <<>>),
     challenges |-> Get(report, "challenges", <<>>),
     solutions  |-> Get(report, "solutions", <<>>),
     sources    |-> Column(DumpList(Get(report, "sources", <<>>))),
     raw_data   |-> Column(DumpDict(Get(report, "raw_data", <<>>)))]

\* mutant: a failed insert is reported with the id the row would have had
save_report_IdOnFailure(report, rws, today, initialised, dbError) ==
    IF ~initialised \/ dbError
    THEN [ret |-> NextId(rws), rows |-> rws, raised |-> FALSE]
    ELSE [ret |-> NextId(rws), rows |-> Append(rws, NewRow(report, NextId(rws), today)),
          raised |-> FALSE]

\* save_report(report), lines 63-115: the value returned, the table afterwards, and
\* whether an exception left the function.  inserted_primary_key of a single-row
\* insert is never None, so line 106 is not reached.
save_report(report, rws, today, initialised, dbError) ==
    IF ~initialised THEN [ret |-> -1, rows |-> rws, raised |-> FALSE]
    ELSE IF dbError THEN [ret |-> -1, rows |-> rws, raised |-> FALSE]
    ELSE [ret |-> NextId(rws), rows |-> Append(rws, NewRow(report, NextId(rws), today)),
          raised |-> FALSE]

Catch_DecodeErrorOnly(r, default) ==
    IF r.exc = "JSONDecodeError" THEN [raised |-> FALSE, val |-> default]
    ELSE IF r.exc = "TypeError" THEN [raised |-> TRUE, val |-> default]
    ELSE [raised |-> FALSE, val |-> r.val]

Catch(r, default) ==
    IF r.exc \in {"JSONDecodeError", "TypeError"} THEN [raised |-> FALSE, val |-> default]
    ELSE [raised |-> FALSE, val |-> r.val]

\* mutant: only a malformed text is caught, a NULL column's TypeError escapes
FieldOrDefault_DecodeErrorOnly(col, default) == Catch_DecodeErrorOnly(Loads(col), default)

\* lines 157-165 and 217-225: try json.loads, except (JSONDecodeError, TypeError)
FieldOrDefault(col, default) == Catch(Loads(col), default)

\* lines 145-167 and 205-225: one row as a report dict (created_at left out), and
\* whether building it raised
RowDict(row, sources, raw_data) ==
    [dict |-> [id         |-> row.id,
               date       |-> row.date,
               title      |-> row.title,
               summary    |-> row.summary,
               trends     |-> row.trends,
               challenges |-> row.challenges,
               solutions  |-> row.solutions,
               sources    |-> sources.val,
               raw_data   |-> raw_data.val],
     raised |-> sources.raised \/ raw_data.raised]

RowToReport(row) ==
    RowDict(row, FieldOrDefault(row.sources, <<>>), FieldOrDefault(row.raw_data, <<>>))

\* the code of a character of a formatted date
CharCode(c) ==
    CASE c = "-" -> 45
      [] c = "0" -> 48 [] c = "1" -> 49 [] c = "2" -> 50 [] c = "3" -> 51 [] c = "4" -> 52
      [] c = "5" -> 53 [] c = "6" -> 54 [] c = "7" -> 55 [] c = "8" -> 56 [] c = "9" -> 57

\* string comparison a < b, character by character
RECURSIVE StrLess(_, _)
StrLess(a, b) ==
    IF b = <<>> THEN FALSE
    ELSE IF a = <<>> THEN TRUE
    ELSE IF CharCode(Head(a)) # CharCode(Head(b)) THEN CharCode(Head(a)) < CharCode(Head(b))
    ELSE StrLess(Tail(a), Tail(b))

\* the orders in which SELECT ... ORDER BY date DESC may deliver the rows: any
\* order with no row before one of a larger date (SQL leaves ties open)
Orderings(rws) ==
    LET n == Len(rws)
    IN {p \in [1..n -> 1..n] :
          /\ \A i, j \in 1..n : i # j => p[i] # p[j]
          /\ \A i, j \in 1..n : i < j => ~StrLess(rws[p[i]].date, rws[p[j]].date)}

\* an Optional[int] argument
NoLimit == [given |-> FALSE, n |-> 0]
Limit(n) == [given |-> TRUE, n |-> n]

\* line 137:  if limit:
Truthy(limit) == limit.given /\ limit.n # 0

\* lines 136-140: the rows the query delivers, in the order p
QueryRows(rws, limit, p) ==
    LET all == [i \in 1..Len(rws) |-> rws[p[i]]]
    IN IF Truthy(limit) THEN Prefix(all, limit.n) ELSE all

\* lines 143-172: the dicts of the n rows delivered in order p; an exception
\* raised while building one of them leaves the function
ReportsList(dicts, n, p) ==
    [ret |-> [i \in 1..n |-> dicts[p[i]].dict],
     raised |-> \E i \in 1..n : dicts[p[i]].raised]

\* lines 144-167 for every row of the table
RowDicts(rws) == [i \in 1..Len(rws) |-> RowToReport(rws[i])]

\* get_reports(limit), lines 117-176; dicts is RowDicts(rws)
get_reports(rws, dicts, limit, p, hasEngine, dbError) ==
    IF ~hasEngine THEN [ret |-> <<>>, raised |-> FALSE]
    ELSE IF dbError THEN [ret |-> <<>>, raised |-> FALSE]
    ELSE ReportsList(dicts, Len(QueryRows(rws, limit, p)), p)

FoundReport(r) == [ret |-> r.dict, raised |-> r.raised]

\* get_report_by_id(report_id), lines 178-234
get_report_by_id(rws, id, hasEngine, dbError) ==
    IF ~hasEngine THEN [ret |-> NoReport, raised |-> FALSE]
    ELSE IF dbError THEN [ret |-> NoReport, raised |-> FALSE]
    ELSE IF \A i \in 1..Len(rws) : rws[i].id # id THEN [ret |-> NoReport, raised |-> FALSE]
    ELSE FoundReport(RowToReport(rws[CHOOSE i \in 1..Len(rws) : rws[i].id = id]))

-----------------------------------------------------------------------------
(* Inputs *)

Headings == {"Key Industry Trends", "Critical Challenges", "Innovative Solutions", "Market Outlook"}
Bodies == {<<"plain text">>, <<"a rising Trend">>, <<"a CHALLENGE remains">>}

\* a text opens with prose, or directly with a heading that no newline precedes
Openings == {<<"Intro">>, <<H2, "Key Industry Trends", NL, "plain text">>}

SectionTexts(bodies) == {<<SEP, h, NL>> \o b : h \in Headings, b \in bodies}

RECURSIVE DocsWith(_, _, _)
DocsWith(openings, bodies, n) ==
    IF n = 0 THEN openings
    ELSE {d \o s : d \in DocsWith(openings, bodies, n - 1), s \in SectionTexts(bodies)}

\* the comprehensive_insights texts: an opening and up to MaxSections sections
Docs == UNION {DocsWith(Openings, Bodies, n) : n \in 0..MaxSections}

\* the texts whose sections have plain bodies
PlainDocs == UNION {DocsWith({<<"Intro">>}, {<<"plain text">>}, n) : n \in 0..MaxSections}

Analyses == {<<>>, <<"website analysis text">>}
SocialAnalyses == {<<"social analysis text">>}
Keywords == {<<"manufacturing", ",", WS, "IIoT">>}

\* a scraped record, with the fields a record of another producer may lack
ScrapedItems ==
    {[title |-> <<"A">>, url |-> <<"https://a.com">>, content |-> <<"page text">>],
     [url |-> <<"https://b.com">>, content |-> <<"page text">>],
     [title |-> <<"C">>, content |-> <<"page text">>]}

RECURSIVE ListsUpTo(_, _)
ListsUpTo(S, n) ==
    IF n = 0 THEN {<<>>}
    ELSE ListsUpTo(S, n - 1)
         \cup {Append(l, x) : l \in {m \in ListsUpTo(S, n - 1) : Len(m) = n - 1}, x \in S}

\* a dict with the key k absent, or present with a value of S
Optional(k, S) == {<<>>} \cup {k :> v : v \in S}

ProcessedDatas(docs) ==
    {ci @@ wa @@ sm @@ sc :
        ci \in Optional("comprehensive_insights", docs \cup {<<>>}),
        wa \in Optional("website_analysis", Analyses),
        sm \in Optional("social_media_analysis", SocialAnalyses),
        sc \in Optional("scraped_content", ListsUpTo(ScrapedItems, MaxScraped))}

vars == <<googleKey, clock, gr_pc, gr_pd, gr_kw, gr_today, gr_loc, gr_calls, gr_raised, gr_ret,
          engine, reportsTbl, rows, db_last, saved,
          rr_pc, search_results, scraped_data, linkedin_data, processed_data,
          genai_ready, oracle_log, rr_calls, rr_raised, ui,
          tavilyKey, serpapiKey, linkedinCreds, src_last>>

\* a specification that makes no pipeline run
RR_Unused ==
    /\ rr_pc = "idle"
    /\ search_results = <<>>
    /\ scraped_data = <<>>
    /\ linkedin_data = <<>>
    /\ processed_data = <<>>
    /\ genai_ready = "unknown"
    /\ oracle_log = <<>>
    /\ rr_calls = <<>>
    /\ rr_raised = ""
    /\ ui = <<>>
    /\ src_last = [op |-> "none"]

\* a specification that calls no source adapter: no search or LinkedIn credential
NoCredentials ==
    /\ tavilyKey = FALSE
    /\ serpapiKey = FALSE
    /\ linkedinCreds = FALSE

\* a specification that makes no store call
DB_Unused ==
    /\ engine = FALSE
    /\ reportsTbl = FALSE
    /\ rows = <<>>
    /\ db_last = [op |-> "none"]
    /\ saved = <<>>

GR_Init ==
    /\ gr_pc = "start"
    /\ gr_kw \in Keywords
    /\ gr_today = <<>>
    /\ gr_loc = EmptyLocals
    /\ gr_calls = <<>>
    /\ gr_raised = ""
    /\ gr_ret = NoReport

-----------------------------------------------------------------------------
(* SpecReport: generate_report called on any processed_data *)

InitReport ==
    /\ googleKey \in BOOLEAN
    /\ clock \in ClockDates
    /\ gr_pd \in ProcessedDatas(PlainDocs)
    /\ GR_Init
    /\ DB_Unused
    /\ RR_Unused
    /\ NoCredentials

NextReport ==
    \/ GR_Enter /\ UNCHANGED <<db_vars, rr_vars>>
    \/ GR_Configure /\ UNCHANGED <<db_vars, rr_vars>>
    \/ GR_Title /\ UNCHANGED <<db_vars, rr_vars>>
    \/ GR_Summary /\ UNCHANGED <<db_vars, rr_vars>>
    \/ GR_Trends /\ UNCHANGED <<db_vars, rr_vars>>
    \/ GR_Challenges /\ UNCHANGED <<db_vars, rr_vars>>
    \/ GR_Solutions /\ UNCHANGED <<db_vars, rr_vars>>
    \/ GR_Build /\ UNCHANGED <<db_vars, rr_vars>>
    \/ Tick /\ UNCHANGED <<gr_vars, db_vars, rr_vars>>

SpecReport == InitReport /\ [][NextReport]_vars

-----------------------------------------------------------------------------
(* SpecSimplified: generate_simplified_report called directly *)

\* a website_analysis of one character more than TrendsCap
LongAnalysis == [i \in 1..(TrendsCap + 1) |-> IF i > TrendsCap THEN "z" ELSE "x"]

SimplifiedInputs ==
    {ci @@ wa :
        ci \in Optional("comprehensive_insights", Docs \cup {<<>>}),
        wa \in Optional("website_analysis", Analyses \cup {LongAnalysis})}

\* generate_simplified_report(processed_data, keywords), lines 159-224
SR_Call ==
    /\ gr_pc = "start"
    /\ gr_ret' = generate_simplified_report(gr_pd, gr_kw, Strftime(clock))
    /\ gr_pc' = AfterReturn(gr_ret')
    /\ UNCHANGED <<gr_pd, gr_kw, gr_today, gr_loc, gr_calls, gr_raised, env_vars>>

InitSimplified ==
    /\ googleKey = FALSE
    /\ clock \in ClockDates
    /\ gr_pd \in SimplifiedInputs
    /\ GR_Init
    /\ DB_Unused
    /\ RR_Unused
    /\ NoCredentials

NextSimplified ==
    \/ SR_Call /\ UNCHANGED <<db_vars, rr_vars>>
    \/ Tick /\ UNCHANGED <<gr_vars, db_vars, rr_vars>>

SpecSimplified == InitSimplified /\ [][NextSimplified]_vars

-----------------------------------------------------------------------------
(* SpecStore: save_report, get_reports and get_report_by_id called in any order *)

\* reports handed to save_report: a full-path report whose texts need escaping,
\* and a simplified report without sources
SaveInputs ==
    {FullReport(
        [comprehensive_insights |-> <<"Intro", SEP, "Key Industry Trends", NL, "plain text">>,
         scraped_content |->
            <<[title |-> <<"The ", Q, "Smart", Q, " Factory">>, url |-> <<"https://a.com">>,
               content |-> <<"page text">>]>>],
        <<"manufacturing", ",", WS, "IIoT">>,
        Strftime(Dates[1]),
        [title |-> <<"oracle title">>, summary |-> <<"oracle summary">>,
         trends |-> <<"oracle trends">>, challenges |-> <<"oracle challenges">>,
         solutions |-> <<"oracle solutions">>]),
     generate_simplified_report(<<>>, <<"IIoT">>, Strftime(Dates[1]))}

\* encoded fields that json.loads cannot read: NULL, a truncated text, a text
\* that is no JSON, the empty text
CorruptColumns ==
    {NullColumn, Column(<<"[", "{", Q, "title">>), Column(<<"not json">>), Column(<<>>)}

\* rows the table may hold before the first call, written by earlier runs or by hand
StoredRows ==
    LET good == NewRow(CHOOSE r \in SaveInputs : r.sources # <<>>, 0, Strftime(Dates[1]))
    IN {good,
        [good EXCEPT !.date = Strftime(Dates[2]), !.sources = Column(<<"[", "{", Q, "title">>)],
        [good EXCEPT !.date = Strftime(Dates[2]), !.raw_data = NullColumn,
                     !.sources = Column(<<"not json">>)]}

InitialTables ==
    {[i \in 1..Len(l) |-> [l[i] EXCEPT !.id = i]] :
        l \in ListsUpTo(StoredRows, IF MaxStored < MaxRows THEN MaxStored ELSE MaxRows)}

DB_Init ==
    /\ engine \in BOOLEAN
    /\ reportsTbl \in {FALSE, engine}
    /\ rows \in InitialTables
    /\ db_last = [op |-> "none"]
    /\ saved = <<>>

\* a call save_report(report); the store may fail the insert
DB_Save ==
    /\ Len(rows) < MaxRows
    /\ \E report \in SaveInputs, dbError \in BOOLEAN :
         LET o == save_report(report, rows, Strftime(clock), Initialised, dbError)
         IN /\ rows' = o.rows
            /\ db_last' = [op |-> "save", arg |-> report, ret |-> o.ret, raised |-> o.raised,
                           err |-> Initialised /\ dbError]
            /\ saved' = IF o.ret # -1 THEN (o.ret :> report) @@ saved ELSE saved
    /\ UNCHANGED <<engine, reportsTbl>>

\* a call get_reports(limit); the store may fail the query
DB_List ==
    /\ LET dicts == RowDicts(rows)
       IN \E p \in Orderings(rows), limit \in {NoLimit} \cup {Limit(n) : n \in 0..MaxLimit},
             dbError \in BOOLEAN :
         LET o == get_reports(rows, dicts, limit, p, engine, dbError)
         IN db_last' = [op |-> "list", arg |-> limit, ret |-> o.ret, raised |-> o.raised,
                        err |-> engine /\ dbError]
    /\ UNCHANGED <<engine, reportsTbl, rows, saved>>

\* a call get_report_by_id(report_id); the store may fail the query
DB_Get ==
    /\ \E id \in 1..NextId(rows), dbError \in BOOLEAN :
         LET o == get_report_by_id(rows, id, engine, dbError)
         IN db_last' = [op |-> "get", arg |-> id, ret |-> o.ret, raised |-> o.raised,
                        err |-> engine /\ dbError]
    /\ UNCHANGED <<engine, reportsTbl, rows, saved>>

InitStore ==
    /\ googleKey = FALSE
    /\ clock \in ClockDates
    /\ gr_pd = <<>>
    /\ GR_Init
    /\ DB_Init
    /\ RR_Unused
    /\ NoCredentials

NextStore ==
    \/ DB_Save /\ UNCHANGED <<gr_vars, env_vars, rr_vars>>
    \/ DB_List /\ UNCHANGED <<gr_vars, env_vars, rr_vars>>
    \/ DB_Get /\ UNCHANGED <<gr_vars, env_vars, rr_vars>>
    \/ Tick /\ UNCHANGED <<gr_vars, db_vars, rr_vars>>

SpecStore == InitStore /\ [][NextStore]_vars

-----------------------------------------------------------------------------
(* utils/web_scraper.py *)

\* None, as get_website_text_content returns it and as dict.get returns it
NoContent == [none |-> TRUE, text |-> <<>>]
Content(text) == [none |-> FALSE, text |-> text]

\* Python truth of an optional str
Falsy(v) == v.none \/ v.text = <<>>

\* the loop has appended nothing, called nothing and raised nothing yet (line 20)
NothingScraped == [ret |-> <<>>, raised |-> FALSE, calls |-> <<>>]

\* lines 29-56: the loop over sites_to_scrape; fetched[i] is what
\* get_website_text_content returns for the i-th site when it is called.  The
\* fields of a search result are optional values: a JSON null is NoContent.
\* title[:50] (line 39) stands outside the try block and raises on a null title.
RECURSIVE ScrapeFrom(_, _, _, _)
ScrapeFrom(sites, fetched, i, acc) ==
    IF i > Len(sites) THEN acc
    ELSE LET result == sites[i]
             url == Get(result, "url", NoContent)
             title == Get(result, "title", Content(<<>>))
             content == fetched[i]
             called == [acc EXCEPT !.calls = Append(@, url.text)]
         IN IF Falsy(url) THEN ScrapeFrom(sites, fetched, i + 1, acc)
            ELSE IF title.none THEN [ret |-> <<>>, raised |-> TRUE, calls |-> acc.calls]
            ELSE IF ~Falsy(content)
            THEN ScrapeFrom(sites, fetched, i + 1,
                     [called EXCEPT !.ret = Append(@, [title |-> title.text, url |-> url.text,
                                                      content |-> content.text])])
            ELSE ScrapeFrom(sites, fetched, i + 1, called)

\* mutant: every search result is scraped, whatever max_sites says
scrape_industry_websites_NoCap(results, max_sites, fetched) ==
    ScrapeFrom(results, fetched, 1, NothingScraped)

\* scrape_industry_websites(search_results, max_sites): the list it returns, whether
\* an exception escaped it, and the urls get_website_text_content was called with
scrape_industry_websites(results, max_sites, fetched) ==
    ScrapeFrom(Prefix(results, max_sites), fetched, 1, NothingScraped)

-----------------------------------------------------------------------------
(* utils/web_search.py *)

\* the outcome of one HTTP request: an exception, or a status with a JSON body
\* whose list member (results, organic_results, elements) may be absent
RequestRaised == [raised |-> TRUE, status |-> 0, has |-> FALSE, items |-> <<>>]
HttpStatus(code) == [raised |-> FALSE, status |-> code, has |-> FALSE, items |-> <<>>]
HttpOk(items) == [raised |-> FALSE, status |-> 200, has |-> TRUE, items |-> items]
HttpOkWithout == [raised |-> FALSE, status |-> 200, has |-> FALSE, items |-> <<>>]

\* " ".join(...) of lines 27 and 150
RECURSIVE JoinStripped(_, _)
JoinStripped(parts, i) ==
    IF i > Len(parts) THEN <<>>
    ELSE (IF i = 1 THEN <<>> ELSE <<WS>>) \o Strip(parts[i]) \o JoinStripped(parts, i + 1)

\* lines 27-28 and 150-151: the query sent to either search service
SearchQuery(keywords) ==
    JoinStripped(Split(keywords, ","), 1)
        \o <<" manufacturing industry IIoT trends challenges solutions">>

Site(title, url, snippet) ==
    [title |-> Content(<<title>>), url |-> Content(<<url>>), snippet |-> Content(<<snippet>>)]

\* the number of entries of the curated list (lines 86-135)
CuratedLen == 10

\* lines 85-136: the well-known industry resources
CuratedList ==
    <<Site("IIoT World - Industrial IoT News & Articles", "https://iiot-world.com/",
           "Latest news and insights about Industrial IoT, smart manufacturing, and industry 4.0 technologies."),
      Site("Manufacturing Tomorrow - Smart Manufacturing and Industry 4.0",
           "https://www.manufacturingtomorrow.com/",
           "Articles and insights about the future of manufacturing, IIoT adoption, and digital transformation."),
      Site("Automation World - Factory Automation", "https://www.automationworld.com/",
           "Coverage of automation technologies in manufacturing and production environments."),
      Site("McKinsey & Company - Manufacturing",
           "https://www.mckinsey.com/industries/advanced-electronics/our-insights",
           "Research and insights on manufacturing industry trends and digital transformation."),
      Site("Deloitte Insights - Industry 4.0",
           "https://www2.deloitte.com/us/en/insights/focus/industry-4-0.html",
           "Research and analysis on the fourth industrial revolution and smart manufacturing."),
      Site("PwC - Industrial Manufacturing Trends",
           "https://www.pwc.com/us/en/industries/industrial-products/industrial-manufacturing.html",
           "Analysis of trends and challenges in the industrial manufacturing sector."),
      Site("Industry Week - Technology and IIoT", "https://www.industryweek.com/technology-and-iiot",
           "News and analysis covering IIoT implementation in manufacturing environments."),
      Site("Manufacturing.net - Industry 4.0", "https://www.manufacturing.net/industry40",
           "Coverage of Industry 4.0 technologies and their impact on manufacturing."),
      Site("IoT World Today - Industrial IoT", "https://www.iotworldtoday.com/industrial/",
           "News and insights about industrial IoT implementations and technologies."),
      Site("Gartner - Manufacturing Industry Insights",
           "https://www.gartner.com/en/industries/manufacturing",
           "Research and analysis on digital transformation in manufacturing.")>>

SearchCall(service, keywords) == [to |-> service, query |-> SearchQuery(keywords)]

\* lines 167-174: one organic result projected to title, url, snippet
OrganicToResult(result) ==
    [title |-> Get(result, "title", Content(<<>>)),
     url |-> Get(result, "link", Content(<<>>)),
     snippet |-> Get(result, "snippet", Content(<<>>))]

\* mutant: a failed SerpAPI request is answered with the curated list
serpapi_search_CuratedOnFailure(keywords, max_results, serp) ==
    [ret |-> IF ~serp.raised /\ serp.status = 200
             THEN LET organic_results == Prefix(serp.items, max_results)
                  IN [i \in 1..Len(organic_results) |-> OrganicToResult(organic_results[i])]
             ELSE Prefix(CuratedList, max_results),
     calls |-> <<SearchCall("serpapi", keywords)>>]

\* serpapi_search(keywords, max_results, api_key), lines 138-181
serpapi_search(keywords, max_results, serp) ==
    [ret |-> IF ~serp.raised /\ serp.status = 200
             THEN LET organic_results == Prefix(serp.items, max_results)
                  IN [i \in 1..Len(organic_results) |-> OrganicToResult(organic_results[i])]
             ELSE <<>>,
     calls |-> <<SearchCall("serpapi", keywords)>>]

\* mutant: the curated list is returned even though a SerpAPI key is configured
perform_fallback_search_CuratedFirst(keywords, max_results, hasSerpKey, serp) ==
    [ret |-> Prefix(CuratedList, max_results), calls |-> <<>>]

\* perform_fallback_search(keywords, max_results), lines 66-136
perform_fallback_search(keywords, max_results, hasSerpKey, serp) ==
    IF hasSerpKey THEN serpapi_search(keywords, max_results, serp)
    ELSE [ret |-> Prefix(CuratedList, max_results), calls |-> <<>>]

\* perform_web_search(keywords, max_results), lines 11-64: the list it returns and
\* the requests it made; tavily and serp are the outcomes of the two requests
perform_web_search(keywords, max_results, hasTavilyKey, hasSerpKey, tavily, serp) ==
    LET fallback == perform_fallback_search(keywords, max_results, hasSerpKey, serp)
        asked == <<SearchCall("tavily", keywords)>>
    IN IF ~hasTavilyKey THEN fallback
       ELSE IF ~tavily.raised /\ tavily.status = 200
       THEN [ret |-> tavily.items, calls |-> asked]
       ELSE [ret |-> fallback.ret, calls |-> asked \o fallback.calls]

-----------------------------------------------------------------------------
(* utils/social_media.py *)

\* search_terms[:3], line 37
TermLimit == 3
\* len(line) > 50, line 121
MinPostChars == 50
\* filtered_lines[:5], line 124
PostsPerCompany == 5

\* a member of a post that the code reads with .get(key, {}).get(inner, ""):
\* a JSON object holding the inner member or not, or a JSON string
JObject(inner) == [shape |-> "object", has |-> TRUE, inner |-> inner]
JEmptyObject == [shape |-> "object", has |-> FALSE, inner |-> NoContent]
JString == [shape |-> "string", has |-> FALSE, inner |-> NoContent]

\* post.get(key, {}).get(inner, ""): AttributeError when the member is no object
NestedGet(post, key) ==
    IF key \notin DOMAIN post THEN [raised |-> FALSE, value |-> Content(<<>>)]
    ELSE IF post[key].shape # "object" THEN [raised |-> TRUE, value |-> NoContent]
    ELSE [raised |-> FALSE, value |-> IF post[key].has THEN post[key].inner ELSE Content(<<>>)]

\* str(x) inside an f-string
Formatted(v) == IF v.none THEN <<"None">> ELSE v.text

\* lines 61-67: the record appended for one post
PostRecord(post) ==
    [type |-> Content(<<"post">>),
     text |-> NestedGet(post, "text").value,
     author |-> Get(post, "author", Content(<<>>)),
     published |-> NestedGet(post, "published").value,
     url |-> Content(<<"https://www.linkedin.com/feed/update/">>
                         \o Formatted(Get(post, "id", Content(<<>>))))]

\* lines 60-67: the loop over the posts of one response
RECURSIVE PostRecords(_, _, _)
PostRecords(posts, j, acc) ==
    IF j > Len(posts) THEN [raised |-> FALSE, ret |-> acc]
    ELSE IF NestedGet(posts[j], "text").raised \/ NestedGet(posts[j], "published").raised
    THEN [raised |-> TRUE, ret |-> acc]
    ELSE PostRecords(posts, j + 1, Append(acc, PostRecord(posts[j])))

LinkedinCall(term) == [to |-> "linkedin", query |-> term]

\* lines 37-70: one request per search term; responses[i] answers the i-th request
RECURSIVE ApiLoop(_, _, _, _)
ApiLoop(terms, responses, i, acc) ==
    IF i > Len(terms) THEN acc
    ELSE LET response == responses[i]
             asked == [acc EXCEPT !.calls = Append(@, LinkedinCall(terms[i]))]
         IN IF response.raised THEN [asked EXCEPT !.raised = TRUE]
            ELSE IF response.status = 200
            THEN LET r == PostRecords(response.items, 1, asked.ret)
                 IN IF r.raised THEN [asked EXCEPT !.raised = TRUE]
                    ELSE ApiLoop(terms, responses, i + 1, [asked EXCEPT !.ret = r.ret])
            ELSE ApiLoop(terms, responses, i + 1, asked)

\* line 35
SearchTerms(keywords) ==
    LET parts == Split(keywords, ",") IN [i \in 1..Len(parts) |-> Strip(parts[i])]

Company(name, url) == [name |-> <<name>>, url |-> <<url>>]

\* lines 92-101
Companies ==
    <<Company("Siemens Digital Industries",
              "https://www.linkedin.com/company/siemens-digital-industries-software/posts/"),
      Company("Rockwell Automation", "https://www.linkedin.com/company/rockwell-automation/posts/"),
      Company("GE Digital", "https://www.linkedin.com/company/ge-digital/posts/"),
      Company("ABB", "https://www.linkedin.com/company/abb/posts/"),
      Company("Schneider Electric", "https://www.linkedin.com/company/schneider-electric/posts/"),
      Company("Honeywell", "https://www.linkedin.com/company/honeywell/posts/"),
      Company("Bosch", "https://www.linkedin.com/company/bosch/posts/"),
      Company("PTC", "https://www.linkedin.com/company/ptc/posts/")>>

\* the lines a company page is made of, with the number of characters of each
LongLine == "Our new edge platform connects every machine on the factory floor"
ShortLine == "Follow"
LineChars == (LongLine :> 65) @@ (ShortLine :> 6)

\* len(line)
RECURSIVE CharLen(_)
CharLen(line) ==
    IF line = <<>> THEN 0
    ELSE (IF Head(line) \in DOMAIN LineChars THEN LineChars[Head(line)] ELSE 1)
         + CharLen(Tail(line))

\* lines 119-130: the records made of one page
CompanyPosts(company, content) ==
    LET IsPost(line) == CharLen(line) > MinPostChars
        lines == Split(content, NL)
        filtered_lines == Prefix(SelectSeq(lines, IsPost), PostsPerCompany)
    IN [k \in 1..Len(filtered_lines) |->
           [type |-> Content(<<"company_post">>),
            company |-> Content(company.name),
            text |-> Content(filtered_lines[k]),
            url |-> Content(company.url)]]

\* lines 107-136: the loop over companies; pages[i] is what
\* get_website_text_content returned for the i-th company page
RECURSIVE AlternativeFrom(_, _, _)
AlternativeFrom(pages, i, acc) ==
    IF i > Len(Companies) THEN acc
    ELSE LET content == pages[i]
             asked == [acc EXCEPT !.calls = Append(@, [to |-> "page", query |-> Companies[i].url])]
         IN IF ~Falsy(content)
            THEN AlternativeFrom(pages, i + 1,
                     [asked EXCEPT !.ret = @ \o CompanyPosts(Companies[i], content.text)])
            ELSE AlternativeFrom(pages, i + 1, asked)

\* collect_linkedin_alternative(keywords), lines 78-140
collect_linkedin_alternative(keywords, pages) ==
    AlternativeFrom(pages, 1, [ret |-> <<>>, raised |-> FALSE, calls |-> <<>>])

\* collect_linkedin_data(keywords), lines 15-76: the list it returns and the
\* requests it made
collect_linkedin_data(keywords, hasCreds, responses, pages) ==
    IF ~hasCreds THEN collect_linkedin_alternative(keywords, pages)
    ELSE LET api == ApiLoop(Prefix(SearchTerms(keywords), TermLimit), responses, 1,
                            [ret |-> <<>>, raised |-> FALSE, calls |-> <<>>])
             alt == collect_linkedin_alternative(keywords, pages)
         IN IF api.raised THEN [alt EXCEPT !.calls = api.calls \o @] ELSE api

-----------------------------------------------------------------------------
(* utils/llm_processor.py *)

\* a response of the oracle: a text, or an exception raised by the call
Response(text) == [ok |-> TRUE, text |-> text]
Failure == [ok |-> FALSE, text |-> <<>>]

\* all_content[:100000], line 118
ContentCap == 100000

\* init_genai(), lines 15-26
init_genai(key, configureOk) == key /\ configureOk

\* lines 75-79
RECURSIVE AllContent(_)
AllContent(items) ==
    IF items = <<>> THEN <<>>
    ELSE <<"Source: ">> \o Head(items).title \o <<" (">> \o Head(items).url \o <<")", NL, NL>>
         \o Head(items).content \o <<NL, NL, "---", NL, NL>>
         \o AllContent(Tail(items))

\* lines 125-129; the fields of a LinkedIn record are optional values
RECURSIVE LinkedinText(_)
LinkedinText(items) ==
    IF items = <<>> THEN <<>>
    ELSE <<"Source: ">> \o Formatted(Get(Head(items), "company", Content(<<"LinkedIn">>)))
         \o <<NL>>
         \o Get(Head(items), "text", Content(<<>>)).text \o <<NL, NL, "---", NL, NL>>
         \o LinkedinText(Tail(items))

\* line 128: linkedin_text += None raises TypeError, outside any try block
LinkedinTextRaises(items) ==
    \E i \in 1..Len(items) : Get(items[i], "text", Content(<<>>)).none

\* one oracle call: which one, what it was given, what the oracle did
LogEntry(call, input, resp) == [call |-> call, input |-> input, resp |-> resp]

\* analyze_with_gemini_direct(content), lines 140-173
analyze_with_gemini_direct(content, resp) ==
    IF resp.ok THEN resp.text ELSE <<"Error analyzing content with Gemini API.">>

\* analyze_social_media_with_gemini(content), lines 175-208
analyze_social_media_with_gemini(content, resp) ==
    IF resp.ok THEN resp.text ELSE <<"Error analyzing social media content.">>

\* mutant: a failed map-reduce chain leaves website_analysis out, without a direct call
WebsiteStage_NoFallback(scraped, o) ==
    IF scraped = <<>> THEN [pd |-> <<>>, log |-> <<>>]
    ELSE IF o.chain.ok
    THEN [pd |-> "website_analysis" :> o.chain.text,
          log |-> <<LogEntry("chain", AllContent(scraped), o.chain)>>]
    ELSE [pd |-> <<>>, log |-> <<LogEntry("chain", AllContent(scraped), o.chain)>>]

\* lines 71-118: the analysis of the scraped content and the oracle calls it makes
WebsiteStage(scraped, o) ==
    IF scraped = <<>> THEN [pd |-> <<>>, log |-> <<>>]
    ELSE LET all_content == AllContent(scraped)
         IN IF o.chain.ok
            THEN [pd |-> "website_analysis" :> o.chain.text,
                  log |-> <<LogEntry("chain", all_content, o.chain)>>]
            ELSE [pd |-> "website_analysis" :>
                            analyze_with_gemini_direct(Prefix(all_content, ContentCap), o.direct),
                  log |-> <<LogEntry("chain", all_content, o.chain),
                            LogEntry("direct", Prefix(all_content, ContentCap), o.direct)>>]

\* lines 121-132
SocialStage(linkedin, o) ==
    IF linkedin = <<>> THEN [pd |-> <<>>, log |-> <<>>]
    ELSE LET linkedin_text == LinkedinText(linkedin)
         IN [pd |-> "social_media_analysis" :>
                        analyze_social_media_with_gemini(linkedin_text, o.social),
             log |-> <<LogEntry("social", linkedin_text, o.social)>>]

\* mutant: an absent analysis reaches the synthesis prompt as the empty text
SynthesisInputs_NoPlaceholder(pd) ==
    <<Get(pd, "website_analysis", <<>>), Get(pd, "social_media_analysis", <<>>)>>

\* lines 222-223: the two texts formatted into the synthesis prompt
SynthesisInputs(pd) ==
    <<Get(pd, "website_analysis", <<"No website analysis available.">>),
      Get(pd, "social_media_analysis", <<"No social media analysis available.">>)>>

\* mutant: an oracle error yields the empty text
generate_comprehensive_insights_Empty(pd, resp) ==
    IF resp.ok THEN resp.text ELSE <<>>

\* generate_comprehensive_insights(processed_data), lines 210-263
generate_comprehensive_insights(pd, resp) ==
    IF resp.ok THEN resp.text ELSE <<"Error generating comprehensive insights.">>

\* mutant: a failed synthesis leaves comprehensive_insights out of the result
process_data_with_langchain_DropsFailed(scraped, linkedin, ready, o) ==
    IF ~ready THEN [pd |-> <<>>, log |-> <<>>, raised |-> FALSE]
    ELSE LET w == WebsiteStage(scraped, o)
             s == SocialStage(linkedin, o)
             analyses == w.pd @@ s.pd
             insights == generate_comprehensive_insights(analyses, o.synthesis)
         IN IF LinkedinTextRaises(linkedin)
            THEN [pd |-> <<>>, log |-> w.log, raised |-> TRUE]
            ELSE [pd |-> IF o.synthesis.ok
                         THEN analyses @@ ("comprehensive_insights" :> insights)
                         ELSE analyses,
                  log |-> w.log \o s.log
                          \o <<LogEntry("synthesis", SynthesisInputs(analyses), o.synthesis)>>,
                  raised |-> FALSE]

\* process_data_with_langchain(search_results, scraped_data, linkedin_data):
\* the dict it returns, the oracle calls it made, and whether an exception escaped
process_data_with_langchain(scraped, linkedin, ready, o) ==
    IF ~ready THEN [pd |-> <<>>, log |-> <<>>, raised |-> FALSE]
    ELSE LET w == WebsiteStage(scraped, o)
             s == SocialStage(linkedin, o)
             analyses == w.pd @@ s.pd
             insights == generate_comprehensive_insights(analyses, o.synthesis)
         IN IF LinkedinTextRaises(linkedin)
            THEN [pd |-> <<>>, log |-> w.log, raised |-> TRUE]
            ELSE [pd |-> analyses @@ ("comprehensive_insights" :> insights),
                  log |-> w.log \o s.log
                          \o <<LogEntry("synthesis", SynthesisInputs(analyses), o.synthesis)>>,
                  raised |-> FALSE]

-----------------------------------------------------------------------------
(* app.py: run_research, lines 193-236 *)

\* the slider's default number of websites to scrape (line 188)
NumWebsitesToScrape == 10

\* what a result of the search service may be: complete, without a url, without
\* a title, with a null title, with a null url
SearchItems ==
    {[title |-> Content(<<"A">>), url |-> Content(<<"https://a.com">>)],
     [title |-> Content(<<"B">>), snippet |-> Content(<<"about b">>)],
     [url |-> Content(<<"https://c.com">>)],
     [title |-> NoContent, url |-> Content(<<"https://d.com">>)],
     [title |-> Content(<<"E">>), url |-> NoContent]}

\* what an organic result of SerpAPI may be
OrganicItems ==
    {[title |-> Content(<<"S">>), link |-> Content(<<"https://s.com">>),
      snippet |-> Content(<<"about s">>)],
     [title |-> Content(<<"T">>)]}

\* what get_website_text_content may return for a url
FetchOutcomes == {NoContent, Content(<<>>), Content(<<"page text">>)}

\* what get_website_text_content may return for a company page
PageOutcomes ==
    {NoContent,
     Content(<<ShortLine, NL, LongLine>>),
     Content(<<LongLine, NL, LongLine, NL, LongLine, NL, LongLine, NL, LongLine, NL, LongLine>>)}

\* the posts a LinkedIn response may hold: complete, with a null text, with a
\* text that is no object
Posts ==
    {[id |-> Content(<<"urn:1">>), author |-> Content(<<"urn:a">>),
      text |-> JObject(Content(<<"a post">>)), published |-> JObject(Content(<<"2026-09-30">>))],
     [id |-> Content(<<"urn:2">>), text |-> JObject(NoContent)],
     [id |-> Content(<<"urn:3">>), text |-> JString],
     [author |-> Content(<<"urn:b">>), text |-> JEmptyObject]}

\* what the oracle may answer to the calls of process_data_with_langchain
OracleOutcomes ==
    [chain : {Response(<<"website analysis text">>), Failure},
     direct : {Response(<<"website analysis text">>), Failure},
     social : {Response(<<"social analysis text">>), Failure},
     synthesis : {Response(<<"Intro", SEP, "Key Industry Trends", NL, "plain text">>), Failure}]

\* the answers of the search services in a pipeline run
RunTavily == {RequestRaised, HttpStatus(500)} \cup {HttpOk(l) : l \in ListsUpTo(SearchItems, MaxResults)}
RunSerp == {RequestRaised} \cup {HttpOk(l) : l \in ListsUpTo(OrganicItems, MaxResults)}

\* the answers of LinkedIn in a pipeline run: the same answer to every request
RunLinkedin ==
    {[i \in 1..TermLimit |-> r] :
        r \in {HttpStatus(403)} \cup {HttpOk(<<post>>) : post \in {q \in Posts : "id" \in DOMAIN q}}}

\* the company pages in a pipeline run: none answers, or the first one does
RunPages ==
    {[i \in 1..Len(Companies) |-> NoContent],
     [i \in 1..Len(Companies) |-> IF i = 1 THEN Content(<<ShortLine, NL, LongLine>>) ELSE NoContent]}

Message(kind, text) == [kind |-> kind, text |-> text]

\* database.py lines 74 and 114: what save_report shows when it returns -1
SaveMessages(initialised, dbError) ==
    IF ~initialised THEN <<Message("error", "Database not properly initialized")>>
    ELSE IF dbError THEN <<Message("error", "Error saving report to database")>>
    ELSE <<>>

\* line 231
SuccessMessage == Message("success", "Research completed and report generated successfully!")

\* an exception escaped the stage: run_research has no handler, the run ends
Aborted(stage) ==
    /\ rr_raised' = stage
    /\ rr_pc' = "aborted"

\* line 201: search_results = perform_web_search(focus_keywords, num_search_results)
RR_Search ==
    /\ rr_pc = "search"
    /\ \E num_search_results \in 1..MaxResults, tavily \in RunTavily, serp \in RunSerp :
         search_results' = perform_web_search(gr_kw, num_search_results,
                                              tavilyKey, serpapiKey, tavily, serp).ret
    /\ rr_calls' = Append(rr_calls, "perform_web_search")
    /\ rr_pc' = "scrape"
    /\ UNCHANGED <<scraped_data, linkedin_data, processed_data, genai_ready, oracle_log,
                   rr_raised, ui, src_last>>
    /\ UNCHANGED <<gr_vars, env_vars, db_vars>>

\* line 206: scraped_data = scrape_industry_websites(search_results, num_websites_to_scrape)
RR_Scrape ==
    /\ rr_pc = "scrape"
    /\ \E fetched \in [1..Len(search_results) -> FetchOutcomes] :
         LET r == scrape_industry_websites(search_results, NumWebsitesToScrape, fetched)
         IN IF r.raised
            THEN Aborted("scrape_industry_websites") /\ UNCHANGED scraped_data
            ELSE /\ scraped_data' = r.ret
                 /\ rr_pc' = "social"
                 /\ UNCHANGED rr_raised
    /\ rr_calls' = Append(rr_calls, "scrape_industry_websites")
    /\ UNCHANGED <<search_results, linkedin_data, processed_data, genai_ready, oracle_log,
                   ui, src_last>>
    /\ UNCHANGED <<gr_vars, env_vars, db_vars>>

\* lines 210-213: linkedin_data = [] unless the checkbox is ticked
RR_Social ==
    /\ rr_pc = "social"
    /\ \E include_linkedin \in BOOLEAN :
         IF include_linkedin
         THEN /\ \E responses \in RunLinkedin, pages \in RunPages :
                   linkedin_data' =
                       collect_linkedin_data(gr_kw, linkedinCreds, responses, pages).ret
              /\ rr_calls' = Append(rr_calls, "collect_linkedin_data")
         ELSE /\ linkedin_data' = <<>>
              /\ UNCHANGED rr_calls
    /\ rr_pc' = "process"
    /\ UNCHANGED <<search_results, scraped_data, processed_data, genai_ready, oracle_log,
                   rr_raised, ui, src_last>>
    /\ UNCHANGED <<gr_vars, env_vars, db_vars>>

\* line 218: processed_data = process_data_with_langchain(...)
RR_Process ==
    /\ rr_pc = "process"
    /\ \E configureOk \in BOOLEAN, o \in OracleOutcomes :
         LET ready == init_genai(googleKey, configureOk)
             r == process_data_with_langchain(scraped_data, linkedin_data, ready, o)
         IN /\ genai_ready' = IF ready THEN "yes" ELSE "no"
            /\ oracle_log' = r.log
            /\ IF r.raised
               THEN Aborted("process_data_with_langchain") /\ UNCHANGED processed_data
               ELSE /\ processed_data' = r.pd
                    /\ rr_pc' = "generate"
                    /\ UNCHANGED rr_raised
    /\ rr_calls' = Append(rr_calls, "process_data_with_langchain")
    /\ UNCHANGED <<search_results, scraped_data, linkedin_data, ui, src_last>>
    /\ UNCHANGED <<gr_vars, env_vars, db_vars>>

\* line 223: the call generate_report(processed_data, focus_keywords)
RR_Generate ==
    /\ rr_pc = "generate"
    /\ gr_pc = "idle"
    /\ gr_pd' = processed_data
    /\ gr_pc' = "start"
    /\ rr_calls' = Append(rr_calls, "generate_report")
    /\ UNCHANGED <<gr_kw, gr_today, gr_loc, gr_calls, gr_raised, gr_ret>>
    /\ UNCHANGED <<rr_pc, search_results, scraped_data, linkedin_data, processed_data,
                   genai_ready, oracle_log, rr_raised, ui, src_last>>
    /\ UNCHANGED <<env_vars, db_vars>>

\* lines 226-236: save_report(report), whose returned id is not looked at, then
\* the success message and the preview of the report
RR_Save ==
    /\ rr_pc = "generate"
    /\ gr_pc = "done"
    /\ \E dbError \in BOOLEAN :
         LET o == save_report(gr_ret, rows, Strftime(clock), Initialised, dbError)
         IN /\ rows' = o.rows
            /\ db_last' = [op |-> "save", arg |-> gr_ret, ret |-> o.ret, raised |-> o.raised,
                           err |-> Initialised /\ dbError]
            /\ saved' = IF o.ret # -1 THEN (o.ret :> gr_ret) @@ saved ELSE saved
            /\ ui' = ui \o SaveMessages(Initialised, dbError) \o <<SuccessMessage>>
    /\ rr_calls' = Append(rr_calls, "save_report")
    /\ rr_pc' = "finished"
    /\ UNCHANGED <<engine, reportsTbl>>
    /\ UNCHANGED <<search_results, scraped_data, linkedin_data, processed_data,
                   genai_ready, oracle_log, rr_raised, src_last>>
    /\ UNCHANGED <<gr_vars, env_vars>>

-----------------------------------------------------------------------------
(* SpecPipeline: one run of run_research from the button to the saved report *)

InitPipeline ==
    /\ googleKey \in BOOLEAN
    /\ clock \in ClockDates
    /\ tavilyKey \in BOOLEAN
    /\ serpapiKey = tavilyKey
    /\ linkedinCreds = tavilyKey
    /\ gr_pc = "idle"
    /\ gr_pd = <<>>
    /\ gr_kw \in Keywords
    /\ gr_today = <<>>
    /\ gr_loc = EmptyLocals
    /\ gr_calls = <<>>
    /\ gr_raised = ""
    /\ gr_ret = NoReport
    /\ engine \in BOOLEAN
    /\ reportsTbl \in {FALSE, engine}
    /\ rows = <<>>
    /\ db_last = [op |-> "none"]
    /\ saved = <<>>
    /\ rr_pc = "search"
    /\ search_results = <<>>
    /\ scraped_data = <<>>
    /\ linkedin_data = <<>>
    /\ processed_data = <<>>
    /\ genai_ready = "unknown"
    /\ oracle_log = <<>>
    /\ rr_calls = <<>>
    /\ rr_raised = ""
    /\ ui = <<>>
    /\ src_last = [op |-> "none"]

NextPipeline ==
    \/ RR_Search
    \/ RR_Scrape
    \/ RR_Social
    \/ RR_Process
    \/ RR_Generate
    \/ GR_Enter /\ UNCHANGED <<db_vars, rr_vars>>
    \/ GR_Configure /\ UNCHANGED <<db_vars, rr_vars>>
    \/ GR_Title /\ UNCHANGED <<db_vars, rr_vars>>
    \/ GR_Summary /\ UNCHANGED <<db_vars, rr_vars>>
    \/ GR_Trends /\ UNCHANGED <<db_vars, rr_vars>>
    \/ GR_Challenges /\ UNCHANGED <<db_vars, rr_vars>>
    \/ GR_Solutions /\ UNCHANGED <<db_vars, rr_vars>>
    \/ GR_Build /\ UNCHANGED <<db_vars, rr_vars>>
    \/ RR_Save
    \/ Tick /\ UNCHANGED <<gr_vars, db_vars, rr_vars>>

SpecPipeline == InitPipeline /\ [][NextPipeline]_vars

-----------------------------------------------------------------------------
(* SpecSources: one direct call of a source adapter, on any input and with *)
(* any answers of the services it asks                                     *)

\* keywords of two terms, of one term, and of more terms than TermLimit
SourceKeywords == Keywords \cup {<<"robotics">>, <<"a", ",", "b", ",", "c", ",", "d">>}

\* max_results: zero, small, the length of the curated list, and beyond it
ResultLimits == 0..MaxResults \cup {Len(CuratedList), Len(CuratedList) + 1}

TavilyOutcomes ==
    {RequestRaised, HttpStatus(500), HttpOkWithout}
        \cup {HttpOk(l) : l \in ListsUpTo(SearchItems, MaxResults)}

SerpOutcomes ==
    {RequestRaised, HttpStatus(500), HttpOkWithout}
        \cup {HttpOk(l) : l \in ListsUpTo(OrganicItems, MaxResults + 1)}

LinkedinOutcomes ==
    {RequestRaised, HttpStatus(403), HttpOkWithout} \cup {HttpOk(<<post>>) : post \in Posts}

\* the company pages: only the first and the last company may answer
PagesAnswering ==
    {pages \in [1..Len(Companies) -> PageOutcomes] :
        \A i \in 2..(Len(Companies) - 1) : pages[i].none}

SA_Search ==
    /\ src_last.op = "none"
    /\ \E keywords \in SourceKeywords, max_results \in ResultLimits,
          tavily \in TavilyOutcomes, serp \in SerpOutcomes :
         LET r == perform_web_search(keywords, max_results, tavilyKey, serpapiKey, tavily, serp)
         IN src_last' = [op |-> "perform_web_search", keywords |-> keywords,
                         max_results |-> max_results, tavily |-> tavily, serp |-> serp,
                         ret |-> r.ret, raised |-> FALSE, calls |-> r.calls]
    /\ UNCHANGED <<rr_pc, search_results, scraped_data, linkedin_data, processed_data,
                   genai_ready, oracle_log, rr_calls, rr_raised, ui>>
    /\ UNCHANGED <<gr_vars, env_vars, db_vars>>

SA_Scrape ==
    /\ src_last.op = "none"
    /\ \E results \in ListsUpTo(SearchItems, MaxSites), max_sites \in 0..(MaxSites + 1) :
         \E fetched \in [1..Len(results) -> FetchOutcomes] :
            LET r == scrape_industry_websites(results, max_sites, fetched)
            IN src_last' = [op |-> "scrape_industry_websites", results |-> results,
                            max_sites |-> max_sites, fetched |-> fetched,
                            ret |-> r.ret, raised |-> r.raised, calls |-> r.calls]
    /\ UNCHANGED <<rr_pc, search_results, scraped_data, linkedin_data, processed_data,
                   genai_ready, oracle_log, rr_calls, rr_raised, ui>>
    /\ UNCHANGED <<gr_vars, env_vars, db_vars>>

SA_Social ==
    /\ src_last.op = "none"
    /\ \E keywords \in SourceKeywords, responses \in [1..TermLimit -> LinkedinOutcomes],
          pages \in PagesAnswering :
         LET r == collect_linkedin_data(keywords, linkedinCreds, responses, pages)
         IN src_last' = [op |-> "collect_linkedin_data", keywords |-> keywords,
                         ret |-> r.ret, raised |-> r.raised, calls |-> r.calls]
    /\ UNCHANGED <<rr_pc, search_results, scraped_data, linkedin_data, processed_data,
                   genai_ready, oracle_log, rr_calls, rr_raised, ui>>
    /\ UNCHANGED <<gr_vars, env_vars, db_vars>>

InitSources ==
    /\ googleKey = FALSE
    /\ clock = Dates[2]
    /\ tavilyKey \in BOOLEAN
    /\ serpapiKey \in BOOLEAN
    /\ linkedinCreds \in BOOLEAN
    /\ gr_pd = <<>>
    /\ GR_Init
    /\ DB_Unused
    /\ RR_Unused

NextSources ==
    \/ SA_Search
    \/ SA_Scrape
    \/ SA_Social

SpecSources == InitSources /\ [][NextSources]_vars

-----------------------------------------------------------------------------
(* Notions the claims are stated in *)

IsText(t) == t \in Seq(STRING)

\* a complete report: all eight keys, six narrative strings, {title, url} sources
IsCompleteReport(r) ==
    /\ DOMAIN r = ReportKeys
    /\ \A k \in {"title", "date", "summary", "trends", "challenges", "solutions"} : IsText(r[k])
    /\ r.sources \in Seq([title : Seq(STRING), url : Seq(STRING)])

DigitVal(c) == CHOOSE n \in 0..9 : DigitChar(n) = c

\* text t is the date d written YYYY-MM-DD
IsYMD(t, d) ==
    /\ Len(t) = 10
    /\ t[5] = "-" /\ t[8] = "-"
    /\ \A i \in {1, 2, 3, 4, 6, 7, 9, 10} : \E n \in 0..9 : DigitChar(n) = t[i]
    /\ 1000 * DigitVal(t[1]) + 100 * DigitVal(t[2]) + 10 * DigitVal(t[3]) + DigitVal(t[4]) = d[1]
    /\ 10 * DigitVal(t[6]) + DigitVal(t[7]) = d[2]
    /\ 10 * DigitVal(t[9]) + DigitVal(t[10]) = d[3]

\* what the five calls of generate_report can have written into field k
OracleAuthored(k) == {Assigned(k, t) : t \in OracleText(k)}

\* the sections of text doc whose heading line is "## h", each as its full text
HeadedSections(doc, h) ==
    LET parts == Split(doc, SEP)
        headed(p) == Len(p) >= 1 /\ p[1] = h /\ (Len(p) = 1 \/ p[2] = NL)
    IN {<<H2>> \o parts[i] : i \in {j \in 2..Len(parts) : headed(parts[j])}}
       \cup (IF Len(parts[1]) >= 1 /\ parts[1][1] = H2 /\ headed(Tail(parts[1]))
             THEN {parts[1]} ELSE {})

-----------------------------------------------------------------------------
(* Claims *)

\* C1: generate_report is total: whatever keys processed_data holds and whatever
\* the oracle does, the call never ends in an escaped exception, it can always
\* take its next step until it returns, and what it returns is a complete
\* report: six narrative strings and a list of {title, url} sources.
C1_Total ==
    /\ gr_pc # "raised"
    /\ gr_pc \in {"start", "configure", "build", "done"} \cup {CallOrder[i] : i \in 1..Len(CallOrder)}
    /\ gr_pc = "done" => IsCompleteReport(gr_ret)

C1_Witness ==
    /\ gr_pc = "done"
    /\ googleKey
    /\ gr_raised = "challenges"
    /\ "comprehensive_insights" \notin DOMAIN gr_pd
    /\ "scraped_content" \in DOMAIN gr_pd
    /\ Len(gr_ret.sources) = 1

\* C2: without an oracle key the call to generate_report returns at once, having
\* issued no oracle call, the simplified-path report: its title is the literal
\* "Manufacturing & IIoT Industry Research Report - " followed by the current
\* date as YYYY-MM-DD, its sections are those of the simplified path and its
\* raw_data holds the keywords only.
C2_NoKey ==
    [][(~googleKey /\ gr_pc = "start" /\ gr_pc' # "start") =>
          /\ gr_pc' = "done"
          /\ gr_calls' = <<>>
          /\ IsCompleteReport(gr_ret')
          /\ IsYMD(gr_ret'.date, clock)
          /\ gr_ret'.title =
                <<"Manufacturing & IIoT Industry Research Report - ">> \o gr_ret'.date
          /\ LET s == SimplifiedSections(gr_pd)
             IN /\ gr_ret'.summary = s.summary
                /\ gr_ret'.trends = s.trends
                /\ gr_ret'.challenges = s.challenges
                /\ gr_ret'.solutions = s.solutions
          /\ gr_ret'.raw_data = [keywords |-> gr_kw]]_vars

C2_Witness ==
    /\ ~googleKey
    /\ gr_pc = "done"
    /\ gr_calls = <<>>
    /\ "comprehensive_insights" \in DOMAIN gr_pd
    /\ gr_ret.title # <<>>

\* C3: whole-report degrade.  When a call of generate_report raised, every field of
\* the returned report is the simplified path's: the default title, the
\* simplified sections, raw_data with the keywords only, and none of the five
\* fields is a text the oracle wrote, even if earlier calls had succeeded.
\* When no call raised (with a key), all five fields are the oracle's.
C3_WholeReportDegrade ==
    gr_pc = "done" /\ googleKey =>
        IF gr_raised # ""
        THEN /\ gr_ret.title = DefaultTitle(gr_ret.date)
             /\ LET s == SimplifiedSections(gr_pd)
                IN /\ gr_ret.summary = s.summary
                   /\ gr_ret.trends = s.trends
                   /\ gr_ret.challenges = s.challenges
                   /\ gr_ret.solutions = s.solutions
             /\ gr_ret.raw_data = [keywords |-> gr_kw]
             /\ \A i \in 1..Len(CallOrder) : gr_ret[CallOrder[i]] \notin OracleAuthored(CallOrder[i])
        ELSE /\ \A i \in 1..Len(CallOrder) : gr_ret[CallOrder[i]] \in OracleAuthored(CallOrder[i])
             /\ "comprehensive_insights" \in DOMAIN gr_ret.raw_data

\* the trends call raised after the title and summary calls had succeeded
C3_Witness ==
    /\ gr_pc = "done"
    /\ gr_raised = "trends"
    /\ gr_calls = <<"title", "summary", "trends">>
    /\ gr_loc.title \in OracleAuthored("title")
    /\ gr_ret.title = DefaultTitle(gr_ret.date)

\* C4 (as claimed): in the simplified path, when comprehensive_insights has a
\* section headed "## Key Industry Trends" and one headed "## Critical
\* Challenges", whatever their bodies, trends is the former section and
\* challenges the latter.
C4_HeadedSectionsAssigned ==
    LET ci == Get(gr_pd, "comprehensive_insights", <<>>)
    IN (/\ gr_pc = "done"
        /\ HeadedSections(ci, "Key Industry Trends") # {}
        /\ HeadedSections(ci, "Critical Challenges") # {})
       => /\ gr_ret.trends \in HeadedSections(ci, "Key Industry Trends")
          /\ gr_ret.challenges \in HeadedSections(ci, "Critical Challenges")

\* the inputs of the synthesis calls that process_data_with_langchain made, in order
SynthesisRuns ==
    LET IsSynthesis(e) == e.call = "synthesis"
        runs == SelectSeq(oracle_log, IsSynthesis)
    IN [i \in 1..Len(runs) |-> runs[i].input]

PlaceholderTexts ==
    << <<"No website analysis available.">>, <<"No social media analysis available.">> >>

\* the analysis stage has returned and both of its inputs were empty
AnalysedNothing ==
    /\ rr_pc \in {"generate", "finished"}
    /\ scraped_data = <<>>
    /\ linkedin_data = <<>>

\* C5 (as claimed): when scraped_content and social_media are both empty, the
\* analysis stage produces neither website_analysis nor social_media_analysis, the
\* synthesis stage still runs exactly once, on the two placeholder texts, and the
\* assembler returns a complete report.
C5_SynthesisAlwaysRuns ==
    AnalysedNothing =>
        /\ "website_analysis" \notin DOMAIN processed_data
        /\ "social_media_analysis" \notin DOMAIN processed_data
        /\ SynthesisRuns = <<PlaceholderTexts>>
        /\ (rr_pc = "finished" => IsCompleteReport(gr_ret))

\* C5 (amended): when scraped_content and social_media are both empty, the analysis
\* stage produces neither website_analysis nor social_media_analysis.  If
\* init_genai() succeeded, the synthesis stage runs exactly once, on the two
\* placeholder texts; if it failed (no key, or configure raised), the stage
\* returns the empty dict and synthesis does not run.  Either way the assembler
\* returns a complete report.
C5_SynthesisRunsWhenReady ==
    AnalysedNothing =>
        /\ "website_analysis" \notin DOMAIN processed_data
        /\ "social_media_analysis" \notin DOMAIN processed_data
        /\ (genai_ready = "yes" =>
                /\ SynthesisRuns = <<PlaceholderTexts>>
                /\ "comprehensive_insights" \in DOMAIN processed_data)
        /\ (genai_ready = "no" => SynthesisRuns = <<>> /\ processed_data = <<>>)
        /\ genai_ready \in {"yes", "no"}
        /\ (rr_pc = "finished" => IsCompleteReport(gr_ret))

\* a finished run that analysed nothing, synthesised once and assembled its report
C5_Witness ==
    /\ rr_pc = "finished"
    /\ scraped_data = <<>>
    /\ linkedin_data = <<>>
    /\ genai_ready = "yes"
    /\ Len(oracle_log) = 1
    /\ oracle_log[1].call = "synthesis"
    /\ IsCompleteReport(gr_ret)

\* C6 (as claimed): in a run whose search returned [{url: "https://a.com",
\* title: "A"}] and in which the page's content was fetched, exactly one record is
\* appended to the scraped output, and the sources of the report the run produced
\* and saved contain {title: "A", url: "https://a.com"}.
C6_ScrapedSourceInReport ==
    (/\ rr_pc = "finished"
     /\ search_results =
            <<[title |-> Content(<<"A">>), url |-> Content(<<"https://a.com">>)]>>
     /\ scraped_data # <<>>) =>
        LET source == [title |-> <<"A">>, url |-> <<"https://a.com">>]
        IN /\ Len(scraped_data) = 1
           /\ scraped_data[1].title = source.title
           /\ scraped_data[1].url = source.url
           /\ \E i \in 1..Len(gr_ret.sources) : gr_ret.sources[i] = source
           /\ db_last.arg = gr_ret

\* the dates of a listing never increase from one report to the next
SortedByDateDesc(l) == \A i, j \in 1..Len(l) : i < j => ~StrLess(l[i].date, l[j].date)

\* a step that is a call of the store function op
StoreCall(op) ==
    /\ db_last'.op = op
    /\ (db_last.op # op \/ db_last' # db_last \/ rows' # rows)

\* report dict d shows row: its scalar fields are the row's, an encoded field that
\* json.loads cannot read shows as the empty collection, and any other encoded
\* field shows as a value whose encoding is the stored text
ShowsRow(d, row) ==
    /\ d.id = row.id /\ d.date = row.date /\ d.title = row.title
    /\ d.summary = row.summary /\ d.trends = row.trends
    /\ d.challenges = row.challenges /\ d.solutions = row.solutions
    /\ IF row.sources \in CorruptColumns THEN d.sources = <<>>
       ELSE DumpList(d.sources) = row.sources.text
    /\ IF row.raw_data \in CorruptColumns THEN d.raw_data = <<>>
       ELSE DumpDict(d.raw_data) = row.raw_data.text

\* C7: round trip.  When save_report(r) returned an id other than -1 for a complete
\* report r, a later get_report_by_id(id) that the store answers returns a report
\* whose sources and raw_data equal r's, and whose title, summary, trends,
\* challenges and solutions equal r's.
C7_RoundTrip ==
    (db_last.op = "get" /\ ~db_last.err /\ db_last.arg \in DOMAIN saved) =>
        LET r == saved[db_last.arg]
            got == db_last.ret
        IN IsCompleteReport(r) =>
              /\ ~db_last.raised
              /\ got # NoReport
              /\ got.sources = r.sources
              /\ got.raw_data = r.raw_data
              /\ got.title = r.title /\ got.summary = r.summary /\ got.trends = r.trends
              /\ got.challenges = r.challenges /\ got.solutions = r.solutions

\* a saved report with a quoted title in its sources and section markers in raw_data
C7_Witness ==
    /\ db_last.op = "get"
    /\ ~db_last.err
    /\ db_last.arg \in DOMAIN saved
    /\ db_last.ret # NoReport
    /\ Len(db_last.ret.sources) = 1
    /\ \E i \in 1..Len(db_last.ret.sources[1].title) : db_last.ret.sources[1].title[i] = Q
    /\ "comprehensive_insights" \in DOMAIN db_last.ret.raw_data
    /\ \E i \in 1..Len(db_last.ret.raw_data.comprehensive_insights) :
          db_last.ret.raw_data.comprehensive_insights[i] = SEP

\* C8 (as claimed): get_reports(limit=N), N >= 0 and N = 0 included, returns at most
\* N reports, sorted by date descending.
C8_AtMostLimitSorted ==
    (db_last.op = "list" /\ db_last.arg.given) =>
        /\ Len(db_last.ret) <= db_last.arg.n
        /\ SortedByDateDesc(db_last.ret)

\* C9: save_report never raises.  A call returns -1 and leaves the table as it was,
\* or it appends exactly one row, whose id is fresh and is the value returned and
\* whose date is the clock's date written YYYY-MM-DD.  On an uninitialised store
\* or a failed insert it returns -1 and the table is unchanged.
C9_SaveContained ==
    [][StoreCall("save") =>
          /\ ~db_last'.raised
          /\ \/ db_last'.ret = -1 /\ rows' = rows
             \/ /\ db_last'.ret # -1
                /\ Len(rows') = Len(rows) + 1
                /\ SubSeq(rows', 1, Len(rows)) = rows
                /\ rows'[Len(rows')].id = db_last'.ret
                /\ \A i \in 1..Len(rows) : rows[i].id # db_last'.ret
                /\ IsYMD(rows'[Len(rows')].date, clock)
          /\ (~Initialised \/ db_last'.err) => (db_last'.ret = -1 /\ rows' = rows)]_vars

\* an insert that failed on an initialised store which already holds a saved report
C9_Witness ==
    /\ db_last.op = "save"
    /\ db_last.err
    /\ db_last.ret = -1
    /\ saved # <<>>
    /\ rows # <<>>

\* C10: a corrupt or missing encoded field does not fail a read.  A get_reports that
\* the store answers returns one report per row delivered, each showing its row
\* with [] or {} in place of an unreadable field; get_report_by_id likewise returns
\* the report of the row asked for.  Neither raises.
C10_CorruptFieldDegrades ==
    /\ (db_last.op = "list" /\ engine /\ ~db_last.err) =>
          /\ ~db_last.raised
          /\ Len(db_last.ret) =
                IF Truthy(db_last.arg) /\ db_last.arg.n < Len(rows)
                THEN db_last.arg.n ELSE Len(rows)
          /\ \A i \in 1..Len(db_last.ret) :
                \E j \in 1..Len(rows) : ShowsRow(db_last.ret[i], rows[j])
          /\ \A i, j \in 1..Len(db_last.ret) : i # j => db_last.ret[i].id # db_last.ret[j].id
    /\ (db_last.op = "get" /\ engine /\ ~db_last.err) =>
          /\ ~db_last.raised
          /\ \A j \in 1..Len(rows) :
                rows[j].id = db_last.arg => ShowsRow(db_last.ret, rows[j])

\* a listing of a row with a NULL raw_data and an unreadable sources next to a row
\* whose sources are intact
C10_Witness ==
    /\ db_last.op = "list"
    /\ engine /\ ~db_last.err
    /\ Len(db_last.ret) >= 2
    /\ \E j \in 1..Len(rows) : rows[j].raw_data = NullColumn /\ rows[j].sources \in CorruptColumns
    /\ \E i \in 1..Len(db_last.ret) : db_last.ret[i].sources # <<>>
    /\ \E i \in 1..Len(db_last.ret) : db_last.ret[i].sources = <<>> /\ db_last.ret[i].raw_data = <<>>

\* the stages of a run in the order run_research calls them, with and without
\* the optional collection of LinkedIn data
FullRuns ==
    {<<"perform_web_search", "scrape_industry_websites", "collect_linkedin_data",
       "process_data_with_langchain", "generate_report", "save_report">>,
     <<"perform_web_search", "scrape_industry_websites",
       "process_data_with_langchain", "generate_report", "save_report">>}

IsPrefixOf(a, b) == Len(a) <= Len(b) /\ \A i \in 1..Len(a) : a[i] = b[i]

IsList(l) == DOMAIN l = 1..Len(l)

\* the save_report calls of the run, as the store saw them
SavedOnceComplete ==
    /\ db_last.op = "save"
    /\ IsCompleteReport(db_last.arg)
    /\ Len(rows) <= 1

\* C11 (as claimed): no stage failure aborts a started run: whatever credentials
\* are missing and whatever the search, the scrape, the LinkedIn collection or the
\* oracle do, no exception escapes a stage, the stages are called in the fixed
\* order, each once, and the run that has ended has called save_report once with
\* a complete report.
C11_NoStageAbortsRun ==
    /\ rr_raised = ""
    /\ rr_pc # "aborted"
    /\ \E run \in FullRuns : IsPrefixOf(rr_calls, run)
    /\ (rr_pc = "finished" => rr_calls \in FullRuns /\ SavedOnceComplete)

\* the messages of kind k that the run has shown since it called save_report
Shown(k) == {i \in 1..Len(ui) : ui[i].kind = k}

\* C12 (as claimed): when save_report returned -1 at the end of a run, the run
\* has shown an error, has not shown the run as a success, and the report it
\* assembled is still there to be displayed.
C12_FailedSaveNotASuccess ==
    (rr_pc = "finished" /\ db_last.op = "save" /\ db_last.ret = -1) =>
        /\ Shown("error") # {}
        /\ Shown("success") = {}
        /\ IsCompleteReport(gr_ret)

\* C13 (as claimed): a source adapter called on any input, with any failure of
\* the services it asks and any missing or null field in the records it is
\* given, returns a list of records: no exception escapes it.
C13_AdaptersNeverRaise ==
    src_last.op # "none" =>
        /\ ~src_last.raised
        /\ IsList(src_last.ret)

Min(a, b) == IF a <= b THEN a ELSE b

\* text a is the first n characters of text b
IsFirstChars(a, b, n) ==
    /\ Len(a) = Min(n, Len(b))
    /\ \A i \in 1..Len(a) : a[i] = b[i]

\* C14: without the primary search credential perform_web_search asks the primary
\* service nothing.  With a SerpAPI key it makes exactly one request, to SerpAPI;
\* without one it makes no request and returns the first min(10, max_results)
\* entries of the curated list, in the list's order, whatever the keywords.
C14_FallbackChain ==
    (src_last.op = "perform_web_search" /\ ~tavilyKey) =>
        IF serpapiKey
        THEN /\ Len(src_last.calls) = 1
             /\ src_last.calls[1].to = "serpapi"
             /\ Len(src_last.ret) <= src_last.max_results
        ELSE /\ src_last.calls = <<>>
             /\ Len(CuratedList) = CuratedLen
             /\ Len(src_last.ret) = Min(CuratedLen, src_last.max_results)
             /\ \A i \in 1..Len(src_last.ret) : src_last.ret[i] = CuratedList[i]

\* no credential at all and max_results beyond the list: the whole curated list
C14_Witness ==
    /\ src_last.op = "perform_web_search"
    /\ ~tavilyKey
    /\ ~serpapiKey
    /\ src_last.max_results > CuratedLen
    /\ src_last.keywords = <<"robotics">>
    /\ Len(src_last.ret) = CuratedLen
    /\ src_last.ret[CuratedLen].url = Content(<<"https://www.gartner.com/en/industries/manufacturing">>)

\* the heading of a section: its text up to the first newline
HeadingLine(part) ==
    LET nl == {i \in 1..Len(part) : part[i] = NL}
    IN IF nl = {} THEN part ELSE SubSeq(part, 1, (CHOOSE i \in nl : \A j \in nl : i <= j) - 1)

\* the sections of text doc, in order, whose heading contains one of the keywords
SectionsHeaded(doc, kws) ==
    LET parts == Split(doc, SEP)
        Matches(part) == \E kw \in kws : InLower(kw, HeadingLine(part))
    IN SelectSeq(Tail(parts), Matches)

\* C15 (as claimed): in the simplified path, when several sections of
\* comprehensive_insights have a heading containing "trend", trends is the first
\* of them; likewise challenges for "challenge" and solutions for "solution" or
\* "opportunity"; a later matching section does not replace the earlier one.
C15_FirstMatchWins ==
    LET ci == Get(gr_pd, "comprehensive_insights", <<>>)
        FirstOf(field, kws) ==
            Len(SectionsHeaded(ci, kws)) >= 2 =>
                gr_ret[field] = <<H2>> \o SectionsHeaded(ci, kws)[1]
    IN (gr_pc = "done" /\ ci # <<>>) =>
          /\ FirstOf("trends", {"trend"})
          /\ FirstOf("challenges", {"challenge"})
          /\ FirstOf("solutions", {"solution", "opportunity"})

\* C16: in the simplified path with comprehensive_insights absent or empty, trends
\* is the first 1000 characters of website_analysis when that is present and not
\* empty, and "Trend analysis not available." otherwise; summary, challenges and
\* solutions are their fixed placeholders.
C16_NoInsightsFallback ==
    LET website_analysis == Get(gr_pd, "website_analysis", <<>>)
    IN (gr_pc = "done" /\ Get(gr_pd, "comprehensive_insights", <<>>) = <<>>) =>
          /\ IF website_analysis # <<>>
             THEN IsFirstChars(gr_ret.trends, website_analysis, TrendsCap)
             ELSE gr_ret.trends = <<"Trend analysis not available.">>
          /\ gr_ret.summary = <<"Research summary not available due to API limitations.">>
          /\ gr_ret.challenges = <<"Challenge analysis not available.">>
          /\ gr_ret.solutions = <<"Solutions analysis not available.">>

\* a website_analysis longer than the cap was cut to its first 1000 characters
C16_Witness ==
    /\ gr_pc = "done"
    /\ "comprehensive_insights" \notin DOMAIN gr_pd
    /\ Len(Get(gr_pd, "website_analysis", <<>>)) > TrendsCap
    /\ Len(gr_ret.trends) = TrendsCap
    /\ gr_ret.trends[TrendsCap] = "x"

\* the oracle calls of kind call that the analysis stage made, in order
OracleCalls(call) ==
    LET IsCall(e) == e.call = call IN SelectSeq(oracle_log, IsCall)

\* the analysis stage of the run was entered with the oracle configured
Analysed == genai_ready = "yes"

\* the analysis stage of the run has returned its processed_data
AnalysisReturned == rr_pc \in {"generate", "finished"}

\* C17: generate_comprehensive_insights makes one oracle call and no exception
\* escapes it: an analysis stage that reached it returns, with
\* comprehensive_insights the oracle's text, or the literal "Error generating
\* comprehensive insights." when the oracle call raised.
C17_SynthesisContained ==
    /\ Len(OracleCalls("synthesis")) <= 1
    /\ (OracleCalls("synthesis") # <<>> => AnalysisReturned)
    /\ (Analysed /\ AnalysisReturned =>
          /\ Len(OracleCalls("synthesis")) = 1
          /\ oracle_log[Len(oracle_log)].call = "synthesis"
          /\ "comprehensive_insights" \in DOMAIN processed_data
          /\ processed_data["comprehensive_insights"] =
                 IF OracleCalls("synthesis")[1].resp.ok
                 THEN OracleCalls("synthesis")[1].resp.text
                 ELSE <<"Error generating comprehensive insights.">>)

\* the synthesis call raised and the stage returned the literal
C17_Witness ==
    /\ Analysed
    /\ AnalysisReturned
    /\ ~OracleCalls("synthesis")[1].resp.ok
    /\ processed_data["comprehensive_insights"] = <<"Error generating comprehensive insights.">>

\* the map-reduce summarisation of the run's scraped content raised
ChainRaised ==
    /\ Analysed
    /\ scraped_data # <<>>
    /\ oracle_log # <<>>
    /\ oracle_log[1].call = "chain"
    /\ ~oracle_log[1].resp.ok

WebsiteCallSucceeded ==
    LET made == OracleCalls("chain") \o OracleCalls("direct")
    IN made # <<>> /\ made[Len(made)].resp.ok
SocialCallSucceeded ==
    OracleCalls("social") # <<>> /\ OracleCalls("social")[1].resp.ok

\* C19 (as claimed): in the processed_data the analysis stage returned,
\* website_analysis is present only if the scraped content was not empty and the
\* oracle call for it succeeded, social_media_analysis only if the LinkedIn data
\* was not empty and the oracle call for it succeeded; with no LinkedIn data
\* social_media_analysis is absent.
C19_PresentOnlyOnSuccess ==
    AnalysisReturned =>
        /\ ("website_analysis" \in DOMAIN processed_data =>
                scraped_data # <<>> /\ WebsiteCallSucceeded)
        /\ ("social_media_analysis" \in DOMAIN processed_data =>
                linkedin_data # <<>> /\ SocialCallSucceeded)
        /\ (linkedin_data = <<>> => "social_media_analysis" \notin DOMAIN processed_data)

\* the positions among the first max_sites results that have a url and whose
\* fetch returned content
Kept(results, max_sites, fetched) ==
    {i \in 1..Min(max_sites, Len(results)) :
        ~Falsy(Get(results[i], "url", NoContent)) /\ ~Falsy(fetched[i])}

\* the positions among the first max_sites results that have a url
WithUrl(results, max_sites) ==
    {i \in 1..Min(max_sites, Len(results)) : ~Falsy(Get(results[i], "url", NoContent))}

\* the k-th smallest member of a set of positions
Nth(S, k) == CHOOSE i \in S : Cardinality({j \in S : j < i}) = k - 1

\* C20: the list scrape_industry_websites returns is an order-preserving
\* subsequence of the first max_sites search results: at most max_sites records,
\* one for each of those results that has a url and whose fetch returned content,
\* with that url and that content, both non-empty; a result without a url is
\* skipped without a fetch, a fetch that returns nothing leaves no record.
C20_ScrapedSubsequence ==
    (src_last.op = "scrape_industry_websites" /\ ~src_last.raised) =>
        LET results == src_last.results
            kept == Kept(results, src_last.max_sites, src_last.fetched)
            asked == WithUrl(results, src_last.max_sites)
            ret == src_last.ret
        IN /\ Len(ret) = Cardinality(kept)
           /\ Len(ret) <= src_last.max_sites
           /\ \A k \in 1..Len(ret) :
                 /\ ret[k].url = results[Nth(kept, k)].url.text
                 /\ ret[k].content = src_last.fetched[Nth(kept, k)].text
                 /\ ret[k].title = Get(results[Nth(kept, k)], "title", Content(<<>>)).text
                 /\ ret[k].url # <<>>
                 /\ ret[k].content # <<>>
           /\ Len(src_last.calls) = Cardinality(asked)
           /\ \A k \in 1..Len(src_last.calls) :
                 src_last.calls[k] = results[Nth(asked, k)].url.text

\* two results with a url and content, max_sites = 1: only the first is scraped
C20_Witness ==
    /\ src_last.op = "scrape_industry_websites"
    /\ ~src_last.raised
    /\ Len(src_last.results) = 2
    /\ src_last.max_sites = 1
    /\ ~Falsy(Get(src_last.results[2], "url", NoContent))
    /\ ~Falsy(src_last.fetched[2])
    /\ Len(src_last.ret) = 1
    /\ src_last.calls = <<src_last.ret[1].url>>

\* the fields of a LinkedIn record that the analysis stage and the claims name:
\* the label of the "Source: " line (lines 127-128 of llm_processor.py), the text, the url
SocialFields == {"company", "text", "url"}

\* C21 (as claimed): every record collect_linkedin_data returns, from the API path
\* or from the company pages, has the same shape: it holds the label field that
\* the analysis stage reads for its "Source: " line, the text and the url, and all
\* records of a call have the same fields.
C21_SameShape ==
    src_last.op = "collect_linkedin_data" =>
        /\ \A k \in 1..Len(src_last.ret) : SocialFields \subseteq DOMAIN src_last.ret[k]
        /\ \A j, k \in 1..Len(src_last.ret) : DOMAIN src_last.ret[j] = DOMAIN src_last.ret[k]

\* C22 (as claimed): the list get_reports returns is ordered by date descending,
\* and reports of the same date come in insertion order, the smaller id first, so
\* that the order is fixed by the content of the store.
C22_TiesByInsertion ==
    (db_last.op = "list" /\ ~db_last.raised) =>
        /\ SortedByDateDesc(db_last.ret)
        /\ \A i, j \in 1..Len(db_last.ret) :
              (i < j /\ db_last.ret[i].date = db_last.ret[j].date) =>
                  db_last.ret[i].id < db_last.ret[j].id

\* what get_report_by_id answers for id when the store answers
Stored(rws, id) == get_report_by_id(rws, id, TRUE, FALSE)

\* C23: the store is append-only.  In every step the rows already stored stay as
\* they are, at their places; at most one row is added, only by a save_report
\* that returns its id, an id no stored row has; a save_report that returns -1
\* and every get_reports and get_report_by_id leave the table as it is; and what
\* get_report_by_id answers for a stored id is the same after the step as before.
C23_AppendOnly ==
    [][LET n == Len(rows)
       IN /\ IsPrefixOf(rows, rows')
          /\ Len(rows') \in {n, n + 1}
          /\ Len(rows') = n + 1 =>
                /\ db_last'.op = "save"
                /\ db_last'.ret = rows'[n + 1].id
                /\ \A i \in 1..n : rows[i].id # rows'[n + 1].id
          /\ (StoreCall("save") /\ db_last'.ret = -1) => rows' = rows
          /\ (StoreCall("save") /\ db_last'.ret # -1) => Len(rows') = n + 1
          /\ (StoreCall("list") \/ StoreCall("get")) => rows' = rows
          /\ rows' # rows =>
                \A i \in 1..n : Stored(rows', rows[i].id) = Stored(rows, rows[i].id)
      ]_vars

\* a save added a second row, with a fresh id, to a store that held one
C23_Witness ==
    /\ db_last.op = "save"
    /\ db_last.ret = 2
    /\ Len(rows) = 2
    /\ rows[1].id = 1
    /\ rows[2].id = 2
    /\ Stored(rows, 1).ret.id = 1

\* the calls of CallOrder up to and including call
CallsThrough(call) ==
    SubSeq(CallOrder, 1, CHOOSE i \in 1..Len(CallOrder) : CallOrder[i] = call)

\* C24: the oracle calls one invocation of generate_report has issued are, at any
\* moment, the first so many of title, summary, trends, challenges, solutions, in
\* that order, each once.  Once a call has raised, the calls issued are those up
\* to the one that raised, and no more: the generate_simplified_report of the
\* handler adds none.  Without a key, or when configuring raised, none is issued;
\* an invocation that returns with nothing raised has issued all five.
C24_CallsInOrder ==
    /\ IsPrefixOf(gr_calls, CallOrder)
    /\ Len(gr_calls) \in 0..5
    /\ (~googleKey => gr_calls = <<>>)
    /\ (gr_raised = "configure" => gr_calls = <<>>)
    /\ (gr_raised \notin {"", "configure"} => gr_calls = CallsThrough(gr_raised))
    /\ (gr_pc = "done" /\ googleKey /\ gr_raised = "" => gr_calls = CallOrder)

\* the trends call raised: three calls were issued and the simplified report returned
C24_Witness ==
    /\ gr_pc = "done"
    /\ googleKey
    /\ gr_raised = "trends"
    /\ gr_calls = <<"title", "summary", "trends">>
    /\ gr_ret = generate_simplified_report(gr_pd, gr_kw, gr_ret.date)

SynthesisError == <<"Error generating comprehensive insights.">>

\* the report of the run was built by generate_simplified_report
BuiltSimplified == gr_pc = "done" /\ (~googleKey \/ gr_raised # "")

RequestsTo(service) ==
    LET IsTo(c) == c.to = service IN SelectSeq(src_last.calls, IsTo)

\* the primary search gave no answer: no key, an exception, or a status other than 200
PrimaryUnavailable ==
    \/ ~tavilyKey
    \/ src_last.tavily.raised
    \/ src_last.tavily.status # 200

\* the SerpAPI request was answered with status 200
SerpAnswered == ~src_last.serp.raised /\ src_last.serp.status = 200

\* C26: perform_web_search asks each of the two search services at most once.
\* With a SerpAPI key configured and the primary search unavailable or failing, it
\* asks SerpAPI once and returns what serpapi_search returns: the first
\* max_results organic results as {title, url, snippet}, or the empty list when
\* the request raised or its status is not 200.  It returns entries of the curated
\* list only when no SerpAPI key is configured.
C26_SerpBeforeCurated ==
    src_last.op = "perform_web_search" =>
        /\ Len(RequestsTo("tavily")) <= 1
        /\ Len(RequestsTo("serpapi")) <= 1
        /\ (serpapiKey /\ PrimaryUnavailable) =>
              /\ Len(RequestsTo("serpapi")) = 1
              /\ IF SerpAnswered
                 THEN /\ Len(src_last.ret) = Min(Len(src_last.serp.items), src_last.max_results)
                      /\ \A i \in 1..Len(src_last.ret) :
                            /\ DOMAIN src_last.ret[i] = {"title", "url", "snippet"}
                            /\ src_last.ret[i].url =
                                   Get(src_last.serp.items[i], "link", Content(<<>>))
                            /\ src_last.ret[i].title =
                                   Get(src_last.serp.items[i], "title", Content(<<>>))
                 ELSE src_last.ret = <<>>
        /\ (\E i \in 1..Len(src_last.ret) : src_last.ret[i] = CuratedList[1]) =>
              ~serpapiKey /\ PrimaryUnavailable

\* both keys configured, the primary request raised and SerpAPI answered 500:
\* two requests, the empty list
C26_Witness ==
    /\ src_last.op = "perform_web_search"
    /\ tavilyKey
    /\ serpapiKey
    /\ src_last.tavily.raised
    /\ src_last.serp.status = 500
    /\ src_last.max_results > 0
    /\ Len(src_last.calls) = 2
    /\ src_last.ret = <<>>

====
